---- MODULE Spec2Model ----
EXTENDS Integers, Sequences, FiniteSets, TLC

(***************************************************************************)
(* Traffic-Light-and-Enjoy: the phase enumerator (TrafficLightsCombinator) *)
(* and the controller strategies that activate the enumerated phases.      *)
(***************************************************************************)

VARIABLES
    junction,                 \* Junction: [traffic_lights |-> sequence of TrafficLight]
    cars,                     \* Lane.cars of every lane: lane id -> sequence of car ids
    next_car_id,              \* the id the next spawned car gets
    combinations,             \* the controller's / combinator's self.combinations
    controller,               \* the strategy AlgoRunner constructed
    now,                      \* the wall clock read by time.time()
    car_wait_times,           \* SmartTrafficController.car_wait_times
    last_served_time,         \* SmartTrafficController.last_served_time
    current_combination,      \* SmartTrafficController.current_combination
    scores,                   \* the score map of the last tick (Smart: local, Volume: self.scores)
    rr_i,                     \* RoundRobinController.start: local i
    is_first_time,            \* RoundRobinController.start: local is_first_time
    current_traffic_light_id, \* RoundRobinController.current_traffic_light_id
    activations,              \* history: the GREEN sets written by the activations so far
    tick_time,                \* history: the clock and last_served_time the last Smart tick read
    prev_combination,         \* history: current_combination before the last Smart tick
    lastOp,                   \* history: the operation that produced this state
    sim,                      \* the Simulator (Sim), its junction and the server it talks to
    twin                      \* a second Simulator run on the same inputs

vars == <<junction, cars, next_car_id, combinations, controller, now, car_wait_times,
          last_served_time, current_combination, scores, rr_i, is_first_time,
          current_traffic_light_id, activations, tick_time, prev_combination, lastOp,
          sim, twin>>

\* ------------------------------------------------------------------ bounds

MaxLights == 4
MaxCars == 2
MaxTime == 2
MaxActivations == 7

\* ------------------------------------------------------------- RoadEnum

NORTH == 0
EAST == 1
SOUTH == 2
WEST == 3

\* ------------------------------------------------------ Python built-ins

Range(s) == {s[i] : i \in DOMAIN s}

RECURSIVE SortedTuple(_)
\* tuple(sorted(subset))
SortedTuple(S) ==
    IF S = {} THEN <<>>
    ELSE LET m == CHOOSE x \in S : \A y \in S : x <= y
         IN  <<m>> \o SortedTuple(S \ {m})

RECURSIVE ListsOfSet(_)
\* list(set(xs)): the elements of the set, each once, in the iteration order
\* of the set, which the language leaves to the implementation.
ListsOfSet(S) ==
    IF S = {} THEN {<<>>}
    ELSE UNION {{<<x>> \o p : p \in ListsOfSet(S \ {x})} : x \in S}

RECURSIVE SumOver(_, _)
\* sum(f[x] for x in S)
SumOver(f, S) ==
    IF S = {} THEN 0
    ELSE LET x == CHOOSE y \in S : TRUE
         IN  f[x] + SumOver(f, S \ {x})

\* ------------------------------------------------------------- topology

\* The four-arm junction of the repository's fixtures: roads 11..14.
Roads ==
    (11 :> [from_side |-> SOUTH, to_side |-> NORTH, lanes |-> <<110, 111, 112>>]) @@
    (12 :> [from_side |-> NORTH, to_side |-> SOUTH, lanes |-> <<123, 124, 125>>]) @@
    (13 :> [from_side |-> WEST,  to_side |-> EAST,  lanes |-> <<136, 137>>]) @@
    (14 :> [from_side |-> EAST,  to_side |-> WEST,  lanes |-> <<148, 149>>])

RoadIds == DOMAIN Roads

LaneIds == UNION {Range(Roads[r].lanes) : r \in RoadIds}

TrafficLight(light_id, origins, destinations, state) ==
    [id |-> light_id, origins |-> origins, destinations |-> destinations, state |-> state]

get_traffic_lights(j) == j.traffic_lights

get_road_by_id(j, road_id) == Roads[road_id]

get_traffic_light_by_id(j, traffic_light_id) ==
    LET tls == get_traffic_lights(j)
        i == CHOOSE k \in DOMAIN tls :
                 /\ tls[k].id = traffic_light_id
                 /\ \A m \in DOMAIN tls : tls[m].id = traffic_light_id => k <= m
    IN  tls[i]

LightIds(j) == {get_traffic_lights(j)[i].id : i \in DOMAIN get_traffic_lights(j)}

\* ------------------------------------------- TrafficLightsCombinator

check_if_turn_left(from_side, to_sides) ==
    \E i \in DOMAIN to_sides :
        \/ from_side = NORTH /\ to_sides[i] = EAST
        \/ from_side = WEST  /\ to_sides[i] = NORTH
        \/ from_side = SOUTH /\ to_sides[i] = WEST
        \/ from_side = EAST  /\ to_sides[i] = SOUTH

check_if_continue_straight(from_side, to_sides) ==
    \E i \in DOMAIN to_sides : (from_side + to_sides[i]) % 2 = 0

\* A check that is content with one right turn among the movements.
check_if_turn_only_right_Some(from_side, to_sides) ==
    \E i \in DOMAIN to_sides :
        /\ ~(from_side = WEST  /\ to_sides[i] # SOUTH)
        /\ ~(from_side = SOUTH /\ to_sides[i] # EAST)
        /\ ~(from_side = EAST  /\ to_sides[i] # NORTH)
        /\ ~(from_side = NORTH /\ to_sides[i] # WEST)

check_if_turn_only_right(from_side, to_sides) ==
    \A i \in DOMAIN to_sides :
        /\ ~(from_side = WEST  /\ to_sides[i] # SOUTH)
        /\ ~(from_side = SOUTH /\ to_sides[i] # EAST)
        /\ ~(from_side = EAST  /\ to_sides[i] # NORTH)
        /\ ~(from_side = NORTH /\ to_sides[i] # WEST)

OriginRoadId(tl) == tl.origins[1] \div 10

FromSide(j, tl) == get_road_by_id(j, OriginRoadId(tl)).from_side

ToSidesDest(j, tl) ==
    [i \in DOMAIN tl.destinations |-> get_road_by_id(j, tl.destinations[i] \div 10).to_side]

not_entering_the_same_road(tl1, tl2) ==
    \A i \in DOMAIN tl1.destinations : \A k \in DOMAIN tl2.destinations :
        ~(/\ OriginRoadId(tl1) # OriginRoadId(tl2)
          /\ tl1.destinations[i] \div 10 = tl2.destinations[k] \div 10)

not_intersect_on_straight(j, tl1, tl2) ==
    ~(/\ (FromSide(j, tl1) + FromSide(j, tl2)) % 2 = 1
      /\ check_if_continue_straight(FromSide(j, tl1), ToSidesDest(j, tl1))
      /\ check_if_continue_straight(FromSide(j, tl2), ToSidesDest(j, tl2)))

\* A check that looks at the left turn of tl1 only.
not_intersect_on_turn_left_FirstOnly(j, tl1, tl2) ==
    IF check_if_turn_left(FromSide(j, tl1), ToSidesDest(j, tl1))
    THEN \/ FromSide(j, tl1) = FromSide(j, tl2)
         \/ check_if_turn_only_right(FromSide(j, tl2), ToSidesDest(j, tl2))
    ELSE TRUE

not_intersect_on_turn_left(j, tl1, tl2) ==
    IF check_if_turn_left(FromSide(j, tl1), ToSidesDest(j, tl1))
    THEN \/ FromSide(j, tl1) = FromSide(j, tl2)
         \/ check_if_turn_only_right(FromSide(j, tl2), ToSidesDest(j, tl2))
    ELSE IF check_if_turn_left(FromSide(j, tl2), ToSidesDest(j, tl2))
    THEN \/ FromSide(j, tl1) = FromSide(j, tl2)
         \/ check_if_turn_only_right(FromSide(j, tl1), ToSidesDest(j, tl1))
    ELSE TRUE

\* The condition of calculate_possible_active_lights' double loop.
Compatible(j, tl1, tl2) ==
    /\ not_entering_the_same_road(tl1, tl2)
    /\ not_intersect_on_straight(j, tl1, tl2)
    /\ not_intersect_on_turn_left(j, tl1, tl2)

\* possible_combinations after the self-removal loop: a key for every light
\* that some light is compatible with, mapped to the other lights it may
\* be green with.
possible_combinations(j) ==
    LET tls == get_traffic_lights(j)
        keys == {tls[a].id : a \in {a \in DOMAIN tls :
                                      \E b \in DOMAIN tls : Compatible(j, tls[a], tls[b])}}
    IN  [key \in keys |->
            {tls[b].id : b \in {b \in DOMAIN tls :
                \E a \in DOMAIN tls : tls[a].id = key /\ Compatible(j, tls[a], tls[b])}}
            \ {key}]

\* possible_combinations[first_item] of a defaultdict(list)
Lookup(pc, key) == IF key \in DOMAIN pc THEN pc[key] ELSE {}

\* item_sets: one entry per key of the dictionary
item_sets(pc) == [key \in DOMAIN pc |-> {key} \cup pc[key]]

\* valid_subsets, sorted and de-duplicated: the members of some power set that
\* are contained in the item set of another key.
valid_subsets(pc) ==
    LET items == item_sets(pc)
    IN  {SortedTuple(subset) : subset \in
            {s \in SUBSET (UNION {items[k] : k \in DOMAIN items}) :
                \E i \in DOMAIN items : \E k \in DOMAIN items :
                    k # i /\ s \subseteq items[i] /\ s \subseteq items[k]}}

\* final_subsets as a set: the valid subsets contained in no other valid subset.
final_subsets(pc) ==
    LET valid == valid_subsets(pc)
    IN  {v \in valid : ~\E w \in valid : w # v /\ Range(v) \subseteq Range(w)}

\* The last loop of find_max_combinations over final_subsets in the list order
\* `order`: every entry but the last is dropped when its tail is not contained
\* in possible_combinations of its first item.
FilterByFirstItem(pc, order) ==
    LET removable == {i \in 1 .. (Len(order) - 1) :
                         ~(Range(Tail(order[i])) \subseteq Lookup(pc, Head(order[i])))}
        keep(t) == \E i \in DOMAIN order : i \notin removable /\ order[i] = t
    IN  SelectSeq(order, keep)

\* The lists find_max_combinations can return.
find_max_combinations(pc) ==
    {FilterByFirstItem(pc, order) : order \in ListsOfSet(final_subsets(pc))}

calculate_possible_active_lights(j) == find_max_combinations(possible_combinations(j))

\* ------------------------------------------------------------ junctions

\* The movements a light may permit from its road: right, straight, left,
\* straight+right, straight+left; each as the roads it leads into.
EnumShapes == <<
    [road |-> 11, dests |-> <<13>>], [road |-> 11, dests |-> <<11>>],
    [road |-> 11, dests |-> <<14>>], [road |-> 11, dests |-> <<11, 13>>],
    [road |-> 11, dests |-> <<11, 14>>],
    [road |-> 12, dests |-> <<14>>], [road |-> 12, dests |-> <<12>>],
    [road |-> 12, dests |-> <<13>>], [road |-> 12, dests |-> <<12, 14>>],
    [road |-> 12, dests |-> <<12, 13>>],
    [road |-> 13, dests |-> <<12>>], [road |-> 13, dests |-> <<13>>],
    [road |-> 13, dests |-> <<11>>], [road |-> 13, dests |-> <<13, 12>>],
    [road |-> 13, dests |-> <<13, 11>>],
    [road |-> 14, dests |-> <<11>>], [road |-> 14, dests |-> <<14>>],
    [road |-> 14, dests |-> <<12>>], [road |-> 14, dests |-> <<14, 11>>],
    [road |-> 14, dests |-> <<14, 12>>] >>

RECURSIVE SubsetsUpTo(_, _)
SubsetsUpTo(S, k) ==
    IF k = 0 THEN {{}}
    ELSE LET smaller == SubsetsUpTo(S, k - 1)
         IN  smaller \cup {s \cup {x} : s \in smaller, x \in S}

\* How many of the shapes picked before shape n start on the same road.
EarlierOnRoad(picked, n) ==
    Cardinality({m \in picked : m < n /\ EnumShapes[m].road = EnumShapes[n].road})

\* The junction whose lights are the picked shapes, numbered 1.. in shape
\* order, all RED; the k-th light of a road controls the road's k-th lane. A
\* movement into the light's own road stays in its lane, a turn enters the
\* first lane of the road it leads into.
JunctionOf(picked) ==
    LET order == SortedTuple(picked)
    IN  [traffic_lights |->
            [k \in DOMAIN order |->
                LET shape == EnumShapes[order[k]]
                IN  TrafficLight(
                        k,
                        <<Roads[shape.road].lanes[EarlierOnRoad(picked, order[k]) + 1]>>,
                        [d \in DOMAIN shape.dests |->
                            IF shape.dests[d] = shape.road
                            THEN Roads[shape.road].lanes[EarlierOnRoad(picked, order[k]) + 1]
                            ELSE Roads[shape.dests[d]].lanes[1]],
                        FALSE)]]

EnumJunctions ==
    {JunctionOf(picked) : picked \in
        {p \in SubsetsUpTo(DOMAIN EnumShapes, MaxLights) :
            \A n \in p : EarlierOnRoad(p, n) < Len(Roads[EnumShapes[n].road].lanes)}}

\* ----------------------------------------------------- initial values

EmptyDict == [x \in {} |-> 0]

\* Python's None where a phase tuple is expected: no phase holds the id 0.
None == <<0>>

NoTick == [time |-> 0, last_served |-> EmptyDict]

NoCars == [lane \in LaneIds |-> <<>>]

\* No Simulator is running.
SimOff == [pc |-> "off"]

\* --------------------------------------------- enumerator specification

InitEnum ==
    /\ junction \in EnumJunctions
    /\ cars = NoCars
    /\ next_car_id = 1
    /\ combinations = <<>>
    /\ controller = "none"
    /\ now = 0
    /\ car_wait_times = EmptyDict
    /\ last_served_time = EmptyDict
    /\ current_combination = None
    /\ scores = EmptyDict
    /\ rr_i = 0
    /\ is_first_time = TRUE
    /\ current_traffic_light_id = 100
    /\ activations = <<>>
    /\ tick_time = NoTick
    /\ prev_combination = None
    /\ lastOp = "build"
    /\ sim = SimOff
    /\ twin = SimOff

\* TrafficLightsCombinator.__init__: self.combinations of a built junction.
CalculatePossibleActiveLights ==
    /\ lastOp = "build"
    /\ combinations' \in calculate_possible_active_lights(junction)
    /\ lastOp' = "calculate"
    /\ UNCHANGED <<junction, cars, next_car_id, controller, now, car_wait_times,
                   last_served_time, current_combination, scores, rr_i, is_first_time,
                   current_traffic_light_id, activations, tick_time, prev_combination>>
    /\ UNCHANGED <<sim, twin>>

NextEnum == CalculatePossibleActiveLights

SpecEnum == InitEnum /\ [][NextEnum]_vars

\* ------------------------------------------------ enumerator properties

Light(j, light_id) == get_traffic_light_by_id(j, light_id)

\* A set of light ids of j that are pairwise compatible.
IsClique(j, ids) ==
    \A a \in ids : \A b \in ids : a # b => Compatible(j, Light(j, a), Light(j, b))

MaximalCliques(j) ==
    LET cliques == {c \in SUBSET LightIds(j) : c # {} /\ IsClique(j, c)}
    IN  {SortedTuple(c) : c \in {c \in cliques : ~\E d \in cliques : c # d /\ c \subseteq d}}

\* C2: every phase the enumerator returns is a clique of the compatibility
\* graph: any two distinct lights of a returned tuple are compatible.
C2_PhasesAreCliques ==
    lastOp = "calculate" =>
        \A p \in DOMAIN combinations : IsClique(junction, Range(combinations[p]))

\* C3: every returned phase is maximal: each light of the junction outside
\* the phase conflicts with at least one light of the phase.
C3_PhasesAreMaximal ==
    lastOp = "calculate" =>
        \A p \in DOMAIN combinations :
            \A x \in LightIds(junction) \ Range(combinations[p]) :
                \E a \in Range(combinations[p]) :
                    ~Compatible(junction, Light(junction, a), Light(junction, x))

\* C4: the enumerator returns exactly the maximal cliques of the
\* compatibility graph, the singleton of a lone or all-conflicting light
\* included.
C4_ExactlyMaximalCliques ==
    lastOp = "calculate" => Range(combinations) = MaximalCliques(junction)

\* ------------------------------------------------------ lanes and cars

\* Road.get_lanes_by_ids: the lanes of the road whose id is among ids.
get_lanes_by_ids(road_id, ids) ==
    {lane \in Range(Roads[road_id].lanes) : lane \in Range(ids)}

\* The lanes a controller reads for a light: the lanes of the road of the
\* light's first origin that are origins of the light.
OriginLanes(j, tl_id) ==
    LET tl == get_traffic_light_by_id(j, tl_id)
    IN  get_lanes_by_ids(tl.origins[1] \div 10, tl.origins)

\* {car.get_id() for lane in lanes for car in lane.get_cars()}
current_car_ids == UNION {Range(cars[lane]) : lane \in LaneIds}

CarsOnLanes(lanes) == UNION {Range(cars[lane]) : lane \in lanes}

\* A loop that sets the lights of the combination GREEN and forgets red().
ActivateLights_WithoutRed(j, combination) ==
    [j EXCEPT !.traffic_lights =
        [i \in DOMAIN j.traffic_lights |->
            [j.traffic_lights[i] EXCEPT !.state =
                (@ \/ j.traffic_lights[i].id \in Range(combination))]]]

\* The loop of SmartTrafficController.start and of apply_best_combination:
\* green() for the lights whose id is in the combination, red() for the others.
ActivateLights(j, combination) ==
    [j EXCEPT !.traffic_lights =
        [i \in DOMAIN j.traffic_lights |->
            [j.traffic_lights[i] EXCEPT !.state = (j.traffic_lights[i].id \in Range(combination))]]]

GreenIds(j) ==
    {get_traffic_lights(j)[i].id : i \in {i \in DOMAIN get_traffic_lights(j) :
                                             get_traffic_lights(j)[i].state}}

\* max(scores, key=scores.get): the first key, in insertion order, that has
\* the highest score; the keys are inserted in the order of self.combinations.
MaxKey(sc) ==
    LET i == CHOOSE i \in DOMAIN combinations :
                 /\ \A k \in DOMAIN combinations : sc[combinations[k]] <= sc[combinations[i]]
                 /\ \A k \in 1 .. (i - 1) : sc[combinations[k]] < sc[combinations[i]]
    IN  combinations[i]

\* ------------------------------------------ SmartTrafficController

alpha == 1
beta == 5
gamma == 1
hysteresis_threshold == 10

\* One entry of car_wait_times[comb]: [waiting_time, start_time]
WaitEntry(waiting_time, start_time) ==
    [waiting_time |-> waiting_time, start_time |-> start_time]

\* The cars on the lanes feeding the lights of a combination.
CarsOfCombination(j, comb) ==
    CarsOnLanes(UNION {OriginLanes(j, comb[i]) : i \in DOMAIN comb})

\* An update that begins the wait of a tracked car anew.
update_car_wait_times_Restart(cwt, current_time) ==
    [comb \in DOMAIN cwt \cup Range(combinations) |->
        LET old == IF comb \in DOMAIN cwt THEN cwt[comb] ELSE EmptyDict
            kept == {cid \in DOMAIN old : cid \in current_car_ids}
            seen == IF comb \in Range(combinations)
                    THEN CarsOfCombination(junction, comb) ELSE {}
        IN  [cid \in kept \cup seen |->
                IF cid \in seen THEN WaitEntry(0, current_time) ELSE old[cid]]]

\* _update_car_wait_times at clock reading current_time
update_car_wait_times(cwt, current_time) ==
    [comb \in DOMAIN cwt \cup Range(combinations) |->
        LET old == IF comb \in DOMAIN cwt THEN cwt[comb] ELSE EmptyDict
            kept == {cid \in DOMAIN old : cid \in current_car_ids}
            seen == IF comb \in Range(combinations)
                    THEN CarsOfCombination(junction, comb) ELSE {}
        IN  [cid \in kept \cup seen |->
                IF cid \in seen
                THEN IF cid \in kept
                     THEN WaitEntry(current_time - old[cid].start_time, old[cid].start_time)
                     ELSE WaitEntry(0, current_time)
                ELSE old[cid]]]

\* A score without the fairness bonus.
PhaseScore_WithoutFairness(car_dict, last_served, current_time) ==
    LET total_wait == SumOver([cid \in DOMAIN car_dict |-> car_dict[cid].waiting_time],
                              DOMAIN car_dict)
        vehicle_count == Cardinality(DOMAIN car_dict)
    IN  (alpha * total_wait) + (beta * vehicle_count)

\* The score _compute_phase_scores gives one combination.
PhaseScore(car_dict, last_served, current_time) ==
    LET total_wait == SumOver([cid \in DOMAIN car_dict |-> car_dict[cid].waiting_time],
                              DOMAIN car_dict)
        vehicle_count == Cardinality(DOMAIN car_dict)
    IN  IF vehicle_count = 0
        THEN 0
        ELSE (alpha * total_wait) + (beta * vehicle_count)
                 + gamma * (current_time - last_served)

\* _compute_phase_scores at clock reading current_time
compute_phase_scores(cwt, lst, current_time) ==
    [comb \in DOMAIN cwt |->
        PhaseScore(cwt[comb],
                   IF comb \in DOMAIN lst THEN lst[comb] ELSE current_time,
                   current_time)]

\* start() without the hysteresis: the best phase always wins.
ChoosePhase_WithoutHysteresis(sc, current) == MaxKey(sc)

\* The hysteresis of start(): the phase the tick activates.
ChoosePhase(sc, current) ==
    LET best_combination == MaxKey(sc)
        best_score == sc[best_combination]
        current_score == IF current \in DOMAIN sc THEN sc[current] ELSE 0
    IN  IF /\ current # None
           /\ best_combination # current
           /\ (best_score - current_score) < hysteresis_threshold
        THEN current
        ELSE best_combination

\* SmartTrafficController.__init__
SmartInit(t) ==
    /\ car_wait_times = [comb \in Range(combinations) |-> EmptyDict]
    /\ last_served_time = [comb \in Range(combinations) |-> t]
    /\ current_combination = None

\* One iteration of SmartTrafficController.start. The three clock readings
\* of an iteration (in _update_car_wait_times, in _compute_phase_scores and
\* for last_served_time) fall into one unit of the clock.
SmartTick ==
    /\ controller = "smart"
    /\ \E cwt \in {update_car_wait_times(car_wait_times, now)} :
       \E sc \in {compute_phase_scores(cwt, last_served_time, now)} :
           /\ car_wait_times' = cwt
           /\ scores' = sc
           /\ prev_combination' = current_combination
           /\ tick_time' = [time |-> now, last_served |-> last_served_time]
           /\ IF DOMAIN sc = {}
              THEN /\ lastOp' = "smart_idle"
                   /\ UNCHANGED <<junction, current_combination, last_served_time>>
              ELSE \E chosen \in {ChoosePhase(sc, current_combination)} :
                       /\ junction' = ActivateLights(junction, chosen)
                       /\ current_combination' = chosen
                       /\ last_served_time' = [last_served_time EXCEPT ![chosen] = now]
                       /\ lastOp' = "smart_tick"
    /\ UNCHANGED <<cars, next_car_id, combinations, controller, now, rr_i, is_first_time,
                   current_traffic_light_id, activations>>
    /\ UNCHANGED <<sim, twin>>

\* ------------------------------------------- VolumeBasedController

\* The score compute_scores gives one combination: the cars on the lanes of
\* each light whose road no earlier light of the combination has.
VolumeScore(j, comb) ==
    LET counted == {i \in DOMAIN comb :
                       \A k \in 1 .. (i - 1) :
                           get_traffic_light_by_id(j, comb[k]).origins[1] \div 10
                               # get_traffic_light_by_id(j, comb[i]).origins[1] \div 10}
        lanes == UNION {OriginLanes(j, comb[i]) : i \in counted}
    IN  SumOver([lane \in lanes |-> Len(cars[lane])], lanes)

compute_scores(j) == [comb \in Range(combinations) |-> VolumeScore(j, comb)]

\* One iteration of VolumeBasedController.start: compute_scores, then
\* apply_best_combination.
VolumeTick ==
    /\ controller = "volume"
    /\ scores' = compute_scores(junction)
    /\ IF DOMAIN scores' = {}
       THEN UNCHANGED junction
       ELSE junction' = ActivateLights(junction, MaxKey(scores'))
    /\ lastOp' = "volume_tick"
    /\ UNCHANGED <<cars, next_car_id, combinations, controller, now, car_wait_times,
                   last_served_time, current_combination, rr_i, is_first_time,
                   current_traffic_light_id, activations, tick_time, prev_combination>>
    /\ UNCHANGED <<sim, twin>>

\* --------------------------------------------- RoundRobinController

time_interval == 1

\* get_next_traffic_light_id
get_next_traffic_light_id(j, current_id) ==
    LET lights == get_traffic_lights(j)
        found == {i \in DOMAIN lights : lights[i].id = current_id}
    IN  IF found # {}
        THEN LET i == CHOOSE i \in found : \A k \in found : i <= k
             IN  lights[(i % Len(lights)) + 1].id
        ELSE IF Len(lights) > 0 THEN lights[1].id ELSE current_id

\* A loop that never moves on from the first phase.
RoundRobinPhase_First(i) == combinations[1]

\* The phase the activation with counter i sets GREEN.
RoundRobinPhase(i) == combinations[(i % Len(combinations)) + 1]

\* One iteration of RoundRobinController.start.
RoundRobinTick ==
    /\ controller = "rr"
    /\ rr_i < MaxActivations
    /\ IF is_first_time /\ Len(get_traffic_lights(junction)) = 0
       THEN \* "No traffic lights available in junction."
            /\ lastOp' = "rr_skip"
            /\ UNCHANGED <<junction, now, rr_i, is_first_time, current_traffic_light_id,
                           activations>>
       ELSE LET first_id == IF is_first_time
                            THEN get_traffic_lights(junction)[1].id
                            ELSE current_traffic_light_id
            IN  /\ is_first_time' = FALSE
                /\ IF Len(combinations) = 0
                   THEN \* i % len(self.combinations) raises; the loop goes on
                        /\ current_traffic_light_id' = first_id
                        /\ lastOp' = "rr_error"
                        /\ UNCHANGED <<junction, now, rr_i, activations>>
                   ELSE /\ junction' = ActivateLights(junction, RoundRobinPhase(rr_i))
                        /\ current_traffic_light_id' =
                               get_next_traffic_light_id(junction, first_id)
                        /\ rr_i' = rr_i + 1
                        /\ now' = now + time_interval
                        /\ activations' = Append(activations, GreenIds(junction'))
                        /\ lastOp' = "rr_activate"
    /\ UNCHANGED <<cars, next_car_id, combinations, controller, car_wait_times,
                   last_served_time, current_combination, scores, tick_time,
                   prev_combination>>
    /\ UNCHANGED <<sim, twin>>

\* ------------------------------------------------------- environment

\* A step of the environment: the records of the last tick (its clock
\* readings, the local score map of SmartTrafficController.start) are gone;
\* VolumeBasedController keeps self.scores.
ForgetTick ==
    /\ lastOp' = "env"
    /\ tick_time' = NoTick
    /\ prev_combination' = None
    /\ scores' = IF controller = "volume" THEN scores ELSE EmptyDict

\* The lanes that feed some light of the junction.
FeedingLanes(j) == UNION {OriginLanes(j, id) : id \in LightIds(j)}

\* The simulator spawns a car on a lane that feeds a light.
CarArrives(lane) ==
    /\ next_car_id <= MaxCars
    /\ lane \in FeedingLanes(junction)
    /\ cars' = [cars EXCEPT ![lane] = Append(@, next_car_id)]
    /\ next_car_id' = next_car_id + 1
    /\ ForgetTick
    /\ UNCHANGED <<junction, combinations, controller, now, car_wait_times,
                   last_served_time, current_combination, rr_i, is_first_time,
                   current_traffic_light_id, activations>>
    /\ UNCHANGED <<sim, twin>>

\* The first car of a feeding lane is transferred to a destination lane of
\* the lane's light.
CarCrosses(lane, dest) ==
    /\ cars[lane] # <<>>
    /\ dest # lane
    /\ \E id \in LightIds(junction) :
           /\ lane \in OriginLanes(junction, id)
           /\ dest \in Range(get_traffic_light_by_id(junction, id).destinations)
    /\ cars' = [cars EXCEPT ![lane] = Tail(@), ![dest] = Append(@, Head(cars[lane]))]
    /\ ForgetTick
    /\ UNCHANGED <<junction, next_car_id, combinations, controller, now, car_wait_times,
                   last_served_time, current_combination, rr_i, is_first_time,
                   current_traffic_light_id, activations>>
    /\ UNCHANGED <<sim, twin>>

\* The first car of a lane leaves the junction.
CarExits(lane) ==
    /\ cars[lane] # <<>>
    /\ cars' = [cars EXCEPT ![lane] = Tail(@)]
    /\ ForgetTick
    /\ UNCHANGED <<junction, next_car_id, combinations, controller, now, car_wait_times,
                   last_served_time, current_combination, rr_i, is_first_time,
                   current_traffic_light_id, activations>>
    /\ UNCHANGED <<sim, twin>>

\* Time passes between two ticks (time.sleep); only SmartTrafficController
\* reads the clock.
ClockAdvances ==
    /\ controller = "smart"
    /\ now < MaxTime
    /\ now' = now + 1
    /\ ForgetTick
    /\ UNCHANGED <<junction, cars, next_car_id, combinations, controller, car_wait_times,
                   last_served_time, current_combination, rr_i, is_first_time,
                   current_traffic_light_id, activations>>
    /\ UNCHANGED <<sim, twin>>

\* ------------------------------------------- controller specification

\* The junctions the controllers are run on: no light, one light, two
\* conflicting lights, four straight lights, three lights of one road with a
\* merging right turn, and a junction with three phases.
CtlPicks == {{}, {2}, {2, 12}, {2, 7, 12, 17}, {1, 2, 3, 6}, {1, 2, 12, 17}}

\* SmartTrafficController keeps a wait map per phase and is run on the
\* junctions of at most two phases and four feeding lanes in all.
SmartPicks == {{}, {1}, {2, 12}, {2, 7, 12, 17}}

CtlRuns ==
    {[controller |-> "smart", junction |-> JunctionOf(picked)] : picked \in SmartPicks}
    \cup {[controller |-> c, junction |-> JunctionOf(picked)] :
             c \in {"volume", "rr"}, picked \in CtlPicks}

\* AlgoRunner.__init__: a controller constructed on a built junction.
Init ==
    /\ \E run \in CtlRuns : junction = run.junction /\ controller = run.controller
    /\ cars = NoCars
    /\ next_car_id = 1
    /\ combinations \in calculate_possible_active_lights(junction)
    /\ now = 0
    /\ IF controller = "smart"
       THEN SmartInit(now)
       ELSE /\ car_wait_times = EmptyDict
            /\ last_served_time = EmptyDict
            /\ current_combination = None
    /\ scores = EmptyDict
    /\ rr_i = 0
    /\ is_first_time = TRUE
    /\ current_traffic_light_id = 100
    /\ activations = <<>>
    /\ tick_time = NoTick
    /\ prev_combination = None
    /\ lastOp = "init"
    /\ sim = SimOff
    /\ twin = SimOff

Next ==
    \/ SmartTick
    \/ VolumeTick
    \/ RoundRobinTick
    \/ ClockAdvances
    \/ \E lane \in LaneIds : CarArrives(lane)
    \/ \E lane \in LaneIds : \E dest \in LaneIds : CarCrosses(lane, dest)
    \/ \E lane \in LaneIds : CarExits(lane)

Spec == Init /\ [][Next]_vars

\* SmartTrafficController alone, with a scheduler and a clock that keep
\* running: the loop of start() never ends, and time passes.
InitSmart == Init /\ controller = "smart"

NextSmart ==
    \/ SmartTick
    \/ ClockAdvances
    \/ \E lane \in LaneIds : CarArrives(lane)
    \/ \E lane \in LaneIds : \E dest \in LaneIds : CarCrosses(lane, dest)
    \/ \E lane \in LaneIds : CarExits(lane)

FairSpec == InitSmart /\ [][NextSmart]_vars /\ WF_vars(SmartTick) /\ WF_vars(ClockAdvances)

\* ------------------------------------------------ controller properties

TickDone == lastOp \in {"smart_tick", "volume_tick", "rr_activate"}

\* C1: after every control tick of every strategy, any two lights the tick
\* left GREEN are compatible (no merge, straight-cross or left-turn conflict).
C1_GreenLightsCompatible ==
    TickDone => IsClique(junction, GreenIds(junction))

\* C5: at the end of a SmartTrafficController tick that chose a phase, a
\* light is GREEN exactly when its id is in current_combination, which is an
\* enumerated phase, and last_served_time of that phase is the tick's time.
C5_SmartActivation ==
    lastOp = "smart_tick" =>
        /\ current_combination \in Range(combinations)
        /\ \A i \in DOMAIN junction.traffic_lights :
               junction.traffic_lights[i].state
                   <=> (junction.traffic_lights[i].id \in Range(current_combination))
        /\ last_served_time[current_combination] = now
        /\ \A p \in DOMAIN last_served_time \ {current_combination} :
               last_served_time[p] = tick_time.last_served[p]

\* A Smart tick that switched phases after time has passed, leaving lights
\* GREEN and lights RED.
C5_Witness ==
    /\ lastOp = "smart_tick"
    /\ prev_combination # None
    /\ current_combination # prev_combination
    /\ now > 0
    /\ GreenIds(junction) # {}
    /\ GreenIds(junction) # LightIds(junction)

\* C6: a SmartTrafficController tick replaces the active phase P_cur by
\* another phase only if that phase has the highest score of the tick and
\* beats P_cur by at least hysteresis_threshold; otherwise P_cur stays.
C6_Hysteresis ==
    /\ (lastOp = "smart_tick" /\ prev_combination # None
            /\ current_combination # prev_combination) =>
           /\ \A p \in DOMAIN scores : scores[p] <= scores[current_combination]
           /\ scores[current_combination] - scores[prev_combination]
                  >= hysteresis_threshold
    /\ lastOp = "smart_idle" => current_combination = prev_combination

\* A tick that switched from one phase to another.
C6_Witness ==
    /\ lastOp = "smart_tick"
    /\ prev_combination # None
    /\ current_combination # prev_combination

\* The junction has the light and a vehicle is on its origin lanes.
Occupied(light_id) ==
    /\ light_id \in LightIds(junction)
    /\ CarsOnLanes(OriginLanes(junction, light_id)) # {}

Green(light_id) == light_id \in GreenIds(junction)

\* C7: under SmartTrafficController a RED light with a vehicle waiting on its
\* origin lanes is eventually GREEN, unless the vehicles leave first.
C7_NoStarvation ==
    \A light_id \in 1 .. MaxLights :
        (/\ controller = "smart"
         /\ Occupied(light_id)
         /\ ~Green(light_id))
            ~> (Green(light_id) \/ ~Occupied(light_id))

\* alpha * (sum of accumulated waits) + beta * |wait[P]| + gamma * (t - last_served[P])
ScoreFormula(p) ==
    alpha * SumOver([cid \in DOMAIN car_wait_times[p] |->
                        car_wait_times[p][cid].waiting_time], DOMAIN car_wait_times[p])
        + beta * Cardinality(DOMAIN car_wait_times[p])
        + gamma * (tick_time.time - tick_time.last_served[p])

SmartTicked == lastOp \in {"smart_tick", "smart_idle"}

C10_VolumeScore ==
    lastOp = "volume_tick" =>
        \A p \in DOMAIN scores :
            LET lanes == UNION {Range(get_traffic_light_by_id(junction, p[i]).origins) :
                                   i \in DOMAIN p}
            IN  scores[p] = SumOver([lane \in lanes |-> Len(cars[lane])], lanes)

\* ------------------------------------------------------- Simulator (Sim)

\* Sim runs at __time_step = 1/30 s (ui_enabled). Velocities are kept in
\* thirds of a unit per second and distances in 1/180 of a unit, so that a
\* tick's displacement (v + v') / 2 * (1/30) is (v + v') distance units.
TicksPerSecond == 30
VelUnit == 3
DistUnit == 180

\* Lane.__init__: lane_max_vel, and max_decel / max_accel derived from it
lane_max_vel == 100
max_vel == lane_max_vel * VelUnit
max_decel == (lane_max_vel * 3 * VelUnit) \div TicksPerSecond
max_accel == (lane_max_vel * 2 * VelUnit) \div TicksPerSecond

LANE_WIDTH == 50
math_inf == 1000000000

\* A Car: car_id, dist, velocity, dest
Car(car_id, dist, velocity, dest) ==
    [id |-> car_id, dist |-> dist, velocity |-> velocity, dest |-> dest]

\* A TrafficLight of the Simulator: the light and its is_yellow flag.
SimLight(light_id, origins, destinations, state, is_yellow) ==
    [id |-> light_id, origins |-> origins, destinations |-> destinations,
     state |-> state, is_yellow |-> is_yellow]

\* TrafficLight.get_is_yellow / set_is_yellow
get_is_yellow(tl) == tl.is_yellow

set_is_yellow(tl, is_yellow) == [tl EXCEPT !.is_yellow = is_yellow]

Min(a, b) == IF a <= b THEN a ELSE b

Max(a, b) == IF a >= b THEN a ELSE b

\* Sim.__check_if_green
check_if_green(lights, lane) ==
    \E i \in DOMAIN lights :
        /\ lane \in Range(lights[i].origins)
        /\ lights[i].state
        /\ ~get_is_yellow(lights[i])

\* A gap measured to the cars behind this one instead of the cars ahead.
distance_to_car_ahead_Behind(lane_cars, this_car) ==
    LET cars_behind == {i \in DOMAIN lane_cars :
                          /\ lane_cars[i].dist > this_car.dist
                          /\ lane_cars[i] # this_car}
    IN  IF cars_behind = {} THEN math_inf
        ELSE LET nearest == CHOOSE i \in cars_behind :
                               \A k \in cars_behind : lane_cars[k].dist >= lane_cars[i].dist
             IN  this_car.dist - lane_cars[nearest].dist

\* Sim.__distance_to_car_ahead
distance_to_car_ahead(lane_cars, this_car) ==
    LET cars_ahead == {i \in DOMAIN lane_cars :
                          /\ lane_cars[i].dist < this_car.dist
                          /\ lane_cars[i] # this_car}
    IN  IF cars_ahead = {} THEN math_inf
        ELSE LET nearest == CHOOSE i \in cars_ahead :
                               \A k \in cars_ahead : lane_cars[k].dist <= lane_cars[i].dist
             IN  this_car.dist - lane_cars[nearest].dist

\* The physics with a braking zone that begins at 20 instead of 40.
Kinematics_LateBraking(car, light_green, gap) ==
    LET velocity == car.velocity
        dist == car.dist
        safe_distance == Max(60 * DistUnit,
                             (velocity * velocity * DistUnit)
                                 \div (VelUnit * VelUnit * 2 * lane_max_vel * 3))
        desired_velocity ==
            IF ~light_green /\ 5 * DistUnit <= dist /\ dist < 20 * DistUnit
            THEN 0
            ELSE IF gap < safe_distance
                 THEN Min(max_vel, (velocity * gap) \div safe_distance)
                 ELSE max_vel
        dv == Max(-max_decel, Min(desired_velocity - velocity, max_accel))
        new_velocity == velocity + dv
        displacement == velocity + new_velocity
    IN  [car EXCEPT !.velocity = new_velocity, !.dist = dist - displacement]

\* The physics of Sim.__move_car: the car's velocity and distance after one
\* time step.
Kinematics(car, light_green, gap) ==
    LET velocity == car.velocity
        dist == car.dist
        safe_distance == Max(60 * DistUnit,
                             (velocity * velocity * DistUnit)
                                 \div (VelUnit * VelUnit * 2 * lane_max_vel * 3))
        desired_velocity ==
            IF ~light_green /\ 5 * DistUnit <= dist /\ dist < 40 * DistUnit
            THEN 0
            ELSE IF gap < safe_distance
                 THEN Min(max_vel, (velocity * gap) \div safe_distance)
                 ELSE max_vel
        dv == Max(-max_decel, Min(desired_velocity - velocity, max_accel))
        new_velocity == velocity + dv
        displacement == velocity + new_velocity
    IN  [car EXCEPT !.velocity = new_velocity, !.dist = dist - displacement]

\* lane.remove_car(car)
remove_car(lane_cars, car_id) == SelectSeq(lane_cars, LAMBDA c : c.id # car_id)

\* The road on the opposite side of road_id: (from_side difference) % 4 == 2
ParallelRoad(road_id) ==
    CHOOSE r \in RoadIds :
        (Roads[r].from_side - Roads[road_id].from_side) % 4 = 2

\* (dest_road.from_side - cur_road.from_side) % 4: 1 a right turn, 3 a left turn
turn_type(lane, dest_lane) ==
    (Roads[dest_lane \div 10].from_side - Roads[lane \div 10].from_side) % 4

\* Sim.__move_car with a transfer that adds the car to its destination lane
\* and leaves it on the lane it came from.
move_car_WithoutRemove(all_cars, lights, lane_len, lane, car_id) ==
    LET i == CHOOSE k \in DOMAIN all_cars[lane] : all_cars[lane][k].id = car_id
        car == all_cars[lane][i]
        moved == Kinematics(car, check_if_green(lights, lane),
                            distance_to_car_ahead(all_cars[lane], car))
        new_dist == moved.dist
        dest_lane == car.dest
        cur_road == lane \div 10
        dest_road == dest_lane \div 10
        right_shift == (Len(Roads[cur_road].lanes)
                            + Len(Roads[ParallelRoad(cur_road)].lanes)) * LANE_WIDTH + 20
        dist_to_shift == Len(Roads[ParallelRoad(dest_road)].lanes) * LANE_WIDTH + 20
        left_shift == Len(Roads[cur_road].lanes) * LANE_WIDTH
        transfers ==
            /\ new_dist <= 0
            /\ dest_lane # lane
            /\ \/ turn_type(lane, dest_lane) = 1
               \/ /\ turn_type(lane, dest_lane) = 3
                  /\ new_dist <= -(dist_to_shift * DistUnit)
        shifted == [moved EXCEPT !.dist =
                       IF turn_type(lane, dest_lane) = 1
                       THEN -(right_shift * DistUnit)
                       ELSE -(left_shift * DistUnit)]
        after_move ==
            IF transfers
            THEN [all_cars EXCEPT ![lane][i] = moved,
                                  ![dest_lane] = Append(@, shifted)]
            ELSE [all_cars EXCEPT ![lane][i] = moved]
    IN  IF new_dist < -(2 * lane_len * DistUnit)
        THEN [after_move EXCEPT ![lane] = remove_car(@, car_id)]
        ELSE after_move

\* Sim.__move_car for the car car_id of lane: the lanes' cars after the move.
\* lane_len is Lane.LENGTH.
move_car(all_cars, lights, lane_len, lane, car_id) ==
    LET i == CHOOSE k \in DOMAIN all_cars[lane] : all_cars[lane][k].id = car_id
        car == all_cars[lane][i]
        moved == Kinematics(car, check_if_green(lights, lane),
                            distance_to_car_ahead(all_cars[lane], car))
        new_dist == moved.dist
        dest_lane == car.dest
        cur_road == lane \div 10
        dest_road == dest_lane \div 10
        right_shift == (Len(Roads[cur_road].lanes)
                            + Len(Roads[ParallelRoad(cur_road)].lanes)) * LANE_WIDTH + 20
        dist_to_shift == Len(Roads[ParallelRoad(dest_road)].lanes) * LANE_WIDTH + 20
        left_shift == Len(Roads[cur_road].lanes) * LANE_WIDTH
        transfers ==
            /\ new_dist <= 0
            /\ dest_lane # lane
            /\ \/ turn_type(lane, dest_lane) = 1
               \/ /\ turn_type(lane, dest_lane) = 3
                  /\ new_dist <= -(dist_to_shift * DistUnit)
        shifted == [moved EXCEPT !.dist =
                       IF turn_type(lane, dest_lane) = 1
                       THEN -(right_shift * DistUnit)
                       ELSE -(left_shift * DistUnit)]
        after_move ==
            IF transfers
            THEN [all_cars EXCEPT ![lane] = remove_car(@, car_id),
                                  ![dest_lane] = Append(@, shifted)]
            ELSE [all_cars EXCEPT ![lane][i] = moved]
    IN  IF new_dist < -(2 * lane_len * DistUnit)
        THEN [after_move EXCEPT ![lane] = remove_car(@, car_id)]
        ELSE after_move

\* The lanes in the order Sim.__next visits them: road by road.
LaneOrder == <<110, 111, 112, 123, 124, 125, 136, 137, 148, 149>>

RECURSIVE MoveCars(_, _, _, _, _)
\* for car in list(lane.get_cars()): self.__move_car(car, lane, junction)
MoveCars(all_cars, lights, lane_len, lane, car_ids) ==
    IF car_ids = <<>> THEN all_cars
    ELSE MoveCars(move_car(all_cars, lights, lane_len, lane, Head(car_ids)),
                  lights, lane_len, lane, Tail(car_ids))

RECURSIVE MoveLanes(_, _, _, _)
MoveLanes(all_cars, lights, lane_len, lanes) ==
    IF lanes = <<>> THEN all_cars
    ELSE MoveLanes(MoveCars(all_cars, lights, lane_len, Head(lanes),
                            [k \in DOMAIN all_cars[Head(lanes)] |-> all_cars[Head(lanes)][k].id]),
                   lights, lane_len, Tail(lanes))

\* Sim.__next: every car of every lane is moved once per lane it is found in.
next(all_cars, lights, lane_len) == MoveLanes(all_cars, lights, lane_len, LaneOrder)

\* The cars of all lanes, as [id, lane, dist, velocity] records.
CarsAt(all_cars) ==
    UNION {{[id |-> all_cars[lane][k].id, lane |-> lane, dist |-> all_cars[lane][k].dist,
             velocity |-> all_cars[lane][k].velocity] : k \in DOMAIN all_cars[lane]} :
           lane \in DOMAIN all_cars}

\* The cars that were before their stop line and are at or past it (or gone)
\* after the tick.
PassedStopLine(before, after) ==
    {c \in CarsAt(before) :
        /\ c.dist > 0
        /\ \A d \in CarsAt(after) : d.id = c.id => d.dist <= 0}

\* ------------------------------------------- one vehicle and its light

\* Lane.__init__: lane_len
lane_len_default == 400

\* random.uniform(0.5 * lane.max_vel, 1.2 * lane.max_vel), in VelUnit
SpawnVelocities ==
    {max_vel \div 2, (2 * max_vel) \div 3, 275, max_vel, 331, (6 * max_vel) \div 5}

\* The light of lane 110: straight on and the right turn into road 13.
DriveLight(state, is_yellow) == SimLight(1, <<110>>, <<110, 136>>, state, is_yellow)

\* The ticks counted by the drive; counting stops there.
MaxDriveTicks == 131

\* The variables of the controller process, which the Simulator does not touch.
algo_vars == <<junction, cars, next_car_id, combinations, controller, now, car_wait_times,
               last_served_time, current_combination, scores, rr_i, is_first_time,
               current_traffic_light_id, activations, tick_time, prev_combination, lastOp>>

\* The controller process before any junction has been posted to it.
AlgoOff ==
    /\ junction = JunctionOf({})
    /\ cars = NoCars
    /\ next_car_id = 1
    /\ combinations = <<>>
    /\ controller = "none"
    /\ now = 0
    /\ car_wait_times = EmptyDict
    /\ last_served_time = EmptyDict
    /\ current_combination = None
    /\ scores = EmptyDict
    /\ rr_i = 0
    /\ is_first_time = TRUE
    /\ current_traffic_light_id = 100
    /\ activations = <<>>
    /\ tick_time = NoTick
    /\ prev_combination = None
    /\ lastOp = "off"

\* No cars on any lane of the Simulator's junction.
NoSimCars == [lane \in LaneIds |-> <<>>]

\* Sim.__gen_cars has put one car on lane 110 at dist = lane.LENGTH, with a
\* velocity and a destination it drew; the lane's light is as constructed.
\* phase is the light's part in the drive: "steady" as constructed, "amber"
\* after its change of state, "settled" once the amber timer has expired.
InitDrive ==
    /\ AlgoOff
    /\ twin = SimOff
    /\ \E velocity \in SpawnVelocities, dest \in {110, 136}, state \in BOOLEAN :
         sim = [pc |-> "drive",
                lights |-> <<DriveLight(state, FALSE)>>,
                cars |-> [NoSimCars EXCEPT ![110] =
                            <<Car(1, lane_len_default * DistUnit, velocity, dest)>>],
                lane_len |-> lane_len_default,
                phase |-> "steady",
                ticks |-> 0,
                stayed_red |-> ~state,
                amber_passes |-> {}]

\* One iteration of Sim.__run with nothing to ingest: Sim.__next.
\* amber_passes collects the cars that passed their stop line in a tick in
\* which the light of their lane was in amber.
DriveTick ==
    /\ sim.pc = "drive"
    /\ CarsAt(sim.cars) # {}
    /\ \E moved \in {next(sim.cars, sim.lights, sim.lane_len)} :
         sim' = [sim EXCEPT
                   !.cars = moved,
                   !.ticks = Min(@ + 1, MaxDriveTicks),
                   !.amber_passes = @ \cup
                       {c.id : c \in {p \in PassedStopLine(sim.cars, moved) :
                                        \E i \in DOMAIN sim.lights :
                                            /\ p.lane \in Range(sim.lights[i].origins)
                                            /\ get_is_yellow(sim.lights[i])}}]
    /\ UNCHANGED algo_vars
    /\ UNCHANGED twin

\* Sim.__update_traffic_lights ingests a state that differs from the light's:
\* the light takes it and is marked is_yellow.
DriveLightChanges ==
    /\ sim.pc = "drive"
    /\ sim.phase = "steady"
    /\ sim' = [sim EXCEPT !.lights[1] = set_is_yellow([@ EXCEPT !.state = ~@], TRUE),
                          !.phase = "amber",
                          !.stayed_red = FALSE]
    /\ UNCHANGED algo_vars
    /\ UNCHANGED twin

\* change_all_yellow, the amber timer's callback
DriveAmberEnds ==
    /\ sim.pc = "drive"
    /\ sim.phase = "amber"
    /\ sim' = [sim EXCEPT !.lights[1] = set_is_yellow(@, FALSE),
                          !.phase = "settled"]
    /\ UNCHANGED algo_vars
    /\ UNCHANGED twin

NextDrive ==
    \/ DriveTick
    \/ DriveLightChanges
    \/ DriveAmberEnds

SpecDrive == InitDrive /\ [][NextDrive]_vars

\* The one car of the drive, while it is on a lane.
DriveCars == CarsAt(sim.cars)

\* L / Vmax + Vmax / max_decel seconds, in ticks
StopWithin == (lane_len_default * TicksPerSecond) \div lane_max_vel + max_vel \div max_decel

\* C11: a single vehicle spawned at d = L with a velocity in
\* [0.5 Vmax, 1.2 Vmax], on a lane whose light stays RED, never reaches
\* d <= 0, and has come to velocity 0 at 5 <= d < 40 within
\* L / Vmax + Vmax / max_decel seconds.
C11_StopsAtRed ==
    sim.pc = "drive" /\ sim.stayed_red =>
        \E c \in DriveCars :
            /\ c.id = 1
            /\ c.lane = 110
            /\ c.dist > 0
            /\ sim.ticks >= StopWithin => c.velocity = 0
            /\ c.velocity = 0 => 5 * DistUnit <= c.dist /\ c.dist < 40 * DistUnit

C11_Witness ==
    /\ sim.pc = "drive"
    /\ sim.stayed_red
    /\ sim.ticks > 0
    /\ \E c \in DriveCars :
         c.velocity = 0 /\ 5 * DistUnit <= c.dist /\ c.dist < 40 * DistUnit

\* C12: no vehicle passes a stop line (dist > 0 before the tick, dist <= 0
\* after it) in a tick in which the light of its lane is in amber, whatever
\* its distance and velocity were when the amber began.
C12_NoPassInAmber == sim.pc = "drive" => sim.amber_passes = {}

\* ------------------------------------------------- cars on the junction

\* Lane.LENGTH of the lanes of the traffic runs
TrafficLaneLen == 170

\* The cars Sim.__gen_cars creates in a run
MaxSimCars == 2

\* The lanes with car_creation > 0
SpawnLanes == {110, 123}

\* The velocities __gen_cars draws in the traffic runs, in VelUnit
TrafficVelocities == {max_vel \div 2, (6 * max_vel) \div 5}

\* One light per spawning lane: lane 110 goes straight on, right into road 13
\* or left into road 14; lane 123 goes straight on.
TrafficLights(state_110, state_123) ==
    <<SimLight(1, <<110>>, <<110, 136, 148>>, state_110, FALSE),
      SimLight(2, <<123>>, <<123>>, state_123, FALSE)>>

\* junction.get_traffic_light_by_lane_id(lane_id).get_destinations()
light_destinations(lights, lane) ==
    LET i == CHOOSE k \in DOMAIN lights : lane \in Range(lights[k].origins)
    IN  Range(lights[i].destinations)

\* [k.id for k in lane.get_cars()]
CarIds(lane_cars) == [k \in DOMAIN lane_cars |-> lane_cars[k].id]

RECURSIVE Locate(_, _, _)
\* The position of Sim.__next in its loops: the lane (an index of LaneOrder)
\* and what is left of the copy of its car list; past the last lane when the
\* loops are over.
Locate(all_cars, li, todo) ==
    IF todo # <<>> THEN [li |-> li, todo |-> todo]
    ELSE IF li >= Len(LaneOrder) THEN [li |-> Len(LaneOrder) + 1, todo |-> <<>>]
    ELSE Locate(all_cars, li + 1, CarIds(all_cars[LaneOrder[li + 1]]))

RECURSIVE gen_cars(_, _, _, _)
\* Sim.__gen_cars: draws[lane] is the car drawn for the lane, where the
\* Poisson draw of the lane is 1.
gen_cars(all_cars, CAR_ID, lanes, draws) ==
    IF lanes = <<>> THEN [cars |-> all_cars, CAR_ID |-> CAR_ID]
    ELSE IF Head(lanes) \in DOMAIN draws
         THEN gen_cars([all_cars EXCEPT ![Head(lanes)] =
                           Append(@, Car(CAR_ID, TrafficLaneLen * DistUnit,
                                         draws[Head(lanes)].velocity,
                                         draws[Head(lanes)].dest))],
                       CAR_ID + 1, Tail(lanes), draws)
         ELSE gen_cars(all_cars, CAR_ID, Tail(lanes), draws)

\* Sim.__init__ on a junction without cars; the lights are as constructed.
InitTraffic ==
    /\ AlgoOff
    /\ twin = SimOff
    /\ \E state_110 \in BOOLEAN :
         sim = [pc |-> "traffic",
                lights |-> TrafficLights(state_110, TRUE),
                cars |-> NoSimCars,
                lane_len |-> TrafficLaneLen,
                CAR_ID |-> 0,
                li |-> 0,
                todo |-> <<>>]

\* Sim.__next, one car of its loops: self.__move_car(car, lane, junction)
TrafficMoveCar ==
    /\ sim.pc = "traffic"
    /\ \E at \in {Locate(sim.cars, sim.li, sim.todo)} :
         /\ at.li <= Len(LaneOrder)
         /\ sim' = [sim EXCEPT
                      !.cars = move_car(sim.cars, sim.lights, sim.lane_len,
                                        LaneOrder[at.li], Head(at.todo)),
                      !.li = at.li,
                      !.todo = Tail(at.todo)]
    /\ UNCHANGED algo_vars
    /\ UNCHANGED twin

\* The loops of Sim.__next are over: Sim.__gen_cars, and the next iteration
\* of Sim.__run begins.
TrafficGenCars ==
    /\ sim.pc = "traffic"
    /\ Locate(sim.cars, sim.li, sim.todo).li > Len(LaneOrder)
    /\ \E lanes \in SUBSET SpawnLanes :
         /\ sim.CAR_ID + Cardinality(lanes) <= MaxSimCars
         /\ \E draws \in [lanes -> [velocity : TrafficVelocities, dest : LaneIds]] :
              /\ \A lane \in lanes : draws[lane].dest \in light_destinations(sim.lights, lane)
              /\ \E made \in {gen_cars(sim.cars, sim.CAR_ID, LaneOrder, draws)} :
                   sim' = [sim EXCEPT !.cars = made.cars,
                                      !.CAR_ID = made.CAR_ID,
                                      !.li = 0,
                                      !.todo = <<>>]
    /\ UNCHANGED algo_vars
    /\ UNCHANGED twin

NextTraffic ==
    \/ TrafficMoveCar
    \/ TrafficGenCars

SpecTraffic == InitTraffic /\ [][NextTraffic]_vars

\* The ids of the cars on the lanes.
IdsOn(all_cars) == {c.id : c \in CarsAt(all_cars)}

\* The number of places a car id takes on the lanes.
Places(all_cars, car_id) ==
    SumOver([lane \in LaneIds |->
                Cardinality({k \in DOMAIN all_cars[lane] : all_cars[lane][k].id = car_id})],
            LaneIds)

\* C13: every vehicle id is on at most one lane, and a vehicle disappears
\* only in a move that took its distance from -2 * lane length or above to
\* below -2 * lane length.
C13_OneLaneUntilExit ==
    /\ [](sim.pc = "traffic" => \A car_id \in IdsOn(sim.cars) : Places(sim.cars, car_id) = 1)
    /\ [][sim.pc = "traffic" =>
            \A c \in CarsAt(sim.cars) :
                c.id \notin IdsOn(sim'.cars) =>
                    /\ c.dist >= -(2 * sim.lane_len * DistUnit)
                    /\ \E at \in {Locate(sim.cars, sim.li, sim.todo)} :
                         /\ at.li <= Len(LaneOrder)
                         /\ LaneOrder[at.li] = c.lane
                         /\ Head(at.todo) = c.id
                         /\ Kinematics([id |-> c.id, dist |-> c.dist, velocity |-> c.velocity,
                                        dest |-> c.lane],
                                       check_if_green(sim.lights, c.lane),
                                       distance_to_car_ahead(sim.cars[c.lane], c)).dist
                                < -(2 * sim.lane_len * DistUnit)]_vars

\* Both cars were created, one has left, and the other has turned into
\* road 13 or road 14.
C13_Witness ==
    /\ sim.pc = "traffic"
    /\ sim.CAR_ID = 2
    /\ Cardinality(IdsOn(sim.cars)) = 1
    /\ \E c \in CarsAt(sim.cars) : c.lane \in {136, 148}

\* ------------------------------------- the exchange with the controller

\* The update threads started and not yet run
MaxUpdateThreads == 2

\* The lights of the Simulator's junction as constructed: one for lane 110
\* and one for lane 136, which cross.
LoopLights(state_1, state_2) ==
    <<SimLight(1, <<110>>, <<110>>, state_1, FALSE),
      SimLight(2, <<136>>, <<136>>, state_2, FALSE)>>

\* The ids of the lights of the junction as constructed.
JunctionLightIds == {1, 2}

\* The JSON of a traffic light: traffic_light_index, origins, destinations, state
LightJson(tl) ==
    [id |-> tl.id, origins |-> tl.origins, destinations |-> tl.destinations,
     state |-> tl.state]

\* Client.__junction_to_junction_info_json, its traffic lights
junction_info_json(lights) == [i \in DOMAIN lights |-> LightJson(lights[i])]

\* Client.__parse_traffic_lights_response: new TrafficLight objects
parse_traffic_lights_response(data) ==
    [i \in DOMAIN data |->
        SimLight(data[i].id, data[i].origins, data[i].destinations, data[i].state, FALSE)]

\* Client.get_traffic_lights_states: the parsed answer of the server, and the
\* empty list when the request fails or the answer is an error.
get_traffic_lights_states(up, srv) ==
    IF up /\ srv.built THEN parse_traffic_lights_response(srv.lights) ELSE <<>>

\* The indices of cur_tls that Sim.__update_traffic_lights marks: same id as
\* a previous light, other state.
ChangedLights(prev_tls, cur_tls) ==
    {j \in DOMAIN cur_tls :
        \E i \in DOMAIN prev_tls :
            cur_tls[j].id = prev_tls[i].id /\ cur_tls[j].state # prev_tls[i].state}

\* Sim.__update_traffic_lights below its has_yellow test: the junction's
\* lights after set_traffic_lights(fetched) and the marking.
update_traffic_lights(prev_tls, fetched) ==
    [j \in DOMAIN fetched |->
        IF j \in ChangedLights(prev_tls, fetched)
        THEN set_is_yellow(fetched[j], TRUE)
        ELSE fetched[j]]

\* Sim.__set_all_lights_red
set_all_lights_red(lights) == [i \in DOMAIN lights |-> [lights[i] EXCEPT !.state = FALSE]]

\* change_all_yellow, its loop over the lights
clear_all_yellow(lights) ==
    [i \in DOMAIN lights |->
        IF get_is_yellow(lights[i]) THEN set_is_yellow(lights[i], FALSE) ELSE lights[i]]

\* Nothing ingested yet.
NoIngest == [kind |-> "none", before |-> <<>>, list |-> <<>>, after |-> <<>>, recovering |-> FALSE]

\* Sim.start has built the junction on the server and started the algorithm;
\* Sim.__run has sent its initial junction info. No lane has cars or creates
\* cars. amber_of, fails and ingest observe the run: the timer a light's
\* amber belongs to, the failed exchanges in a row, and the last ingestion.
InitLoop ==
    /\ AlgoOff
    /\ twin = SimOff
    /\ \E state_1 \in BOOLEAN, state_2 \in BOOLEAN :
         sim = [pc |-> "loop",
                at |-> "head",
                lights |-> LoopLights(state_1, state_2),
                has_yellow |-> FALSE,
                client_failed |-> FALSE,
                threads |-> 0,
                timer |-> "idle",
                callback |-> "idle",
                up |-> TRUE,
                srv |-> [built |-> TRUE,
                         lights |-> junction_info_json(LoopLights(state_1, state_2))],
                amber_of |-> [id \in JunctionLightIds |-> "none"],
                fails |-> 0,
                ingest |-> NoIngest]

\* Sim.__run, the head of an iteration: Client.send_junction_info, which
\* logs every exception and raises none, and the start of the update thread;
\* with __client_failed set, __set_all_lights_red instead of both.
\* app.post_junction_info replaces the server's junction by the posted one.
LoopHead ==
    /\ sim.pc = "loop"
    /\ sim.at = "head"
    /\ IF ~sim.client_failed
       THEN /\ sim.threads < MaxUpdateThreads
            /\ sim' = [sim EXCEPT
                         !.srv = IF sim.up /\ sim.srv.built
                                 THEN [sim.srv EXCEPT !.lights = junction_info_json(sim.lights)]
                                 ELSE sim.srv,
                         !.threads = @ + 1,
                         !.at = "next"]
       ELSE sim' = [sim EXCEPT !.lights = set_all_lights_red(sim.lights), !.at = "next"]
    /\ UNCHANGED algo_vars
    /\ UNCHANGED twin

\* Sim.__run, the rest of an iteration: __next and __gen_cars on lanes
\* without cars and with car_creation 0, then the sleep.
LoopNext ==
    /\ sim.pc = "loop"
    /\ sim.at = "next"
    /\ sim' = [sim EXCEPT !.at = "head"]
    /\ UNCHANGED algo_vars
    /\ UNCHANGED twin

\* An update thread runs Sim.__update_traffic_lights under the lock.
UpdateTrafficLights ==
    /\ sim.pc = "loop"
    /\ sim.threads > 0
    /\ IF sim.has_yellow
       THEN sim' = [sim EXCEPT !.threads = @ - 1]
       ELSE \E fetched \in {get_traffic_lights_states(sim.up, sim.srv)} :
            \E cur_tls \in {update_traffic_lights(sim.lights, fetched)} :
            \E failed \in {~(sim.up /\ sim.srv.built)} :
              sim' = [sim EXCEPT
                        !.threads = @ - 1,
                        !.lights = cur_tls,
                        !.has_yellow = ChangedLights(sim.lights, fetched) # {},
                        !.timer = IF ChangedLights(sim.lights, fetched) # {}
                                  THEN "pending" ELSE sim.timer,
                        !.amber_of = [id \in JunctionLightIds |->
                                        IF \E j \in ChangedLights(sim.lights, fetched) :
                                               fetched[j].id = id
                                        THEN "pending" ELSE sim.amber_of[id]],
                        !.fails = IF failed THEN Min(sim.fails + 1, 2) ELSE 0,
                        !.ingest = [kind |-> IF failed THEN "failed" ELSE "ok",
                                    before |-> sim.lights,
                                    list |-> fetched,
                                    after |-> cur_tls,
                                    recovering |-> ~failed /\ sim.fails >= 2]]
    /\ UNCHANGED algo_vars
    /\ UNCHANGED twin

\* The amber timer expires: change_all_yellow begins, without the lock.
TimerFires ==
    /\ sim.pc = "loop"
    /\ sim.timer = "pending"
    /\ sim.callback = "idle"
    /\ sim' = [sim EXCEPT
                 !.has_yellow = FALSE,
                 !.timer = "idle",
                 !.callback = "clearing",
                 !.amber_of = [id \in JunctionLightIds |->
                                 IF sim.amber_of[id] = "pending" THEN "clearing"
                                 ELSE sim.amber_of[id]]]
    /\ UNCHANGED algo_vars
    /\ UNCHANGED twin

\* change_all_yellow ends: its loop over the junction's lights.
CallbackClears ==
    /\ sim.pc = "loop"
    /\ sim.callback = "clearing"
    /\ sim' = [sim EXCEPT
                 !.lights = clear_all_yellow(sim.lights),
                 !.callback = "idle",
                 !.amber_of = [id \in JunctionLightIds |->
                                 IF sim.amber_of[id] = "clearing" THEN "none"
                                 ELSE sim.amber_of[id]]]
    /\ UNCHANGED algo_vars
    /\ UNCHANGED twin

\* The controller's thread on the server decides: the lights of greens turn
\* green on its junction, the others red.
ControllerDecides ==
    /\ sim.pc = "loop"
    /\ sim.srv.built
    /\ sim.srv.lights # <<>>
    /\ \E greens \in SUBSET JunctionLightIds :
         sim' = [sim EXCEPT !.srv.lights =
                    [i \in DOMAIN sim.srv.lights |->
                        [sim.srv.lights[i] EXCEPT !.state = (sim.srv.lights[i].id \in greens)]]]
    /\ UNCHANGED algo_vars
    /\ UNCHANGED twin

\* The connection between the Simulator and the server is cut, or is back.
ConnectionChanges ==
    /\ sim.pc = "loop"
    /\ sim' = [sim EXCEPT !.up = ~@]
    /\ UNCHANGED algo_vars
    /\ UNCHANGED twin

NextLoop ==
    \/ LoopHead
    \/ LoopNext
    \/ UpdateTrafficLights
    \/ TimerFires
    \/ CallbackClears
    \/ ControllerDecides
    \/ ConnectionChanges

SpecLoop == InitLoop /\ [][NextLoop]_vars

\* The state of the light light_id among lights: "absent", "GREEN" or "RED".
StateOf(lights, light_id) ==
    IF \E i \in DOMAIN lights : lights[i].id = light_id
    THEN LET i == CHOOSE k \in DOMAIN lights : lights[k].id = light_id
         IN  IF lights[i].state THEN "GREEN" ELSE "RED"
    ELSE "absent"

\* C15: when a light-state exchange fails, every light keeps the state it
\* had before the exchange.
C15_FailedExchangeKeepsStates ==
    sim.pc = "loop" /\ sim.ingest.kind = "failed" =>
        \A id \in JunctionLightIds :
            StateOf(sim.ingest.after, id) = StateOf(sim.ingest.before, id)

\* C16: after two failed exchanges in a row, and for as long as the
\* exchanges keep failing, every light of the junction is RED.
C16_AllRedWhileSevered ==
    sim.pc = "loop" /\ sim.fails >= 2 =>
        \A id \in JunctionLightIds : StateOf(sim.lights, id) = "RED"

\* C17: the first exchange that succeeds after the fallback ends it: the
\* junction has all its lights again, each in the state the controller
\* decided, with no restart.
C17_RecoversOnFirstSuccess ==
    sim.pc = "loop" /\ sim.ingest.recovering =>
        \A id \in JunctionLightIds :
            /\ StateOf(sim.ingest.after, id) # "absent"
            /\ StateOf(sim.ingest.after, id) = StateOf(sim.ingest.list, id)

\* C18: when a light-state list is ingested, every light whose id is not in
\* the list keeps the state it had.
C18_UnlistedLightsKeepState ==
    sim.pc = "loop" /\ sim.ingest.kind \in {"ok", "failed"} =>
        \A id \in JunctionLightIds :
            StateOf(sim.ingest.list, id) = "absent" =>
                StateOf(sim.ingest.after, id) = StateOf(sim.ingest.before, id)

\* The light light_id is in amber.
InAmber(lights, light_id) ==
    \E i \in DOMAIN lights : lights[i].id = light_id /\ get_is_yellow(lights[i])

\* C19: an ingestion marks exactly the lights whose state changed, and a
\* marked light is in amber until the timer started for it has expired: not
\* shorter (in amber while that timer is pending) and not longer (out of
\* amber once that timer's callback has ended), whatever the order of the
\* update threads and the timer callbacks.
C19_AmberUntilTimerExpires ==
    sim.pc = "loop" =>
        /\ \A id \in JunctionLightIds :
             /\ sim.amber_of[id] = "pending" => InAmber(sim.lights, id)
             /\ InAmber(sim.lights, id) => sim.amber_of[id] \in {"pending", "clearing"}
        /\ \A id \in JunctionLightIds :
             InAmber(sim.ingest.after, id) <=>
                 /\ StateOf(sim.ingest.before, id) # "absent"
                 /\ StateOf(sim.ingest.after, id) # "absent"
                 /\ StateOf(sim.ingest.before, id) # StateOf(sim.ingest.after, id)

\* --------------------------------------------- a run of the Simulator

\* Lane.LENGTH of the lanes of the runs
RunLaneLen == 45

\* The iterations of Sim.__run a run is followed for
MaxRunTicks == 6

\* The exchanges after which the controller's answer changes
FlipPoints == {0, 1, 2}

\* The light-state stream: the answer to the exchange number gets. Light 1
\* is GREEN in the first flip answers and RED in all later ones.
Stream(flip, gets) == <<SimLight(1, <<110>>, <<110>>, gets < flip, FALSE)>>

\* A Simulator constructed on a junction with the light of lane 110 GREEN
\* and one car created on lane 110, and the stream it will be answered with.
NewRun(flip) ==
    [pc |-> "run",
     lights |-> <<SimLight(1, <<110>>, <<110>>, TRUE, FALSE)>>,
     cars |-> [NoSimCars EXCEPT ![110] = <<Car(0, RunLaneLen * DistUnit, max_vel, 110)>>],
     lane_len |-> RunLaneLen,
     has_yellow |-> FALSE,
     threads |-> 0,
     timer |-> "idle",
     callback |-> "idle",
     flip |-> flip,
     gets |-> 0,
     ticks |-> 0,
     in_next |-> FALSE,
     li |-> 0,
     todo |-> <<>>,
     tick_lights |-> <<>>,
     stale |-> {}]

\* What a car of lane reads of the lights: the state and the amber flag of
\* the lights of its lane.
LightView(lights, lane) ==
    {[state |-> lights[i].state, is_yellow |-> get_is_yellow(lights[i])] :
        i \in {k \in DOMAIN lights : lane \in Range(lights[k].origins)}}

\* Sim.__run starts the update thread, and Sim.__next takes the lock.
\* tick_lights keeps the lights as they are at that moment.
run_next_begins(r) ==
    [r EXCEPT !.threads = r.threads + 1,
              !.in_next = TRUE,
              !.li = 0,
              !.todo = <<>>,
              !.tick_lights = r.lights]

\* Sim.__next moves the next car of its loops. stale collects the cars moved
\* on a reading of the lights that differs from tick_lights.
run_next_moves_car(r) ==
    LET at == Locate(r.cars, r.li, r.todo)
        lane == LaneOrder[at.li]
    IN  [r EXCEPT !.cars = move_car(r.cars, r.lights, r.lane_len, lane, Head(at.todo)),
                  !.li = at.li,
                  !.todo = Tail(at.todo),
                  !.stale = IF LightView(r.lights, lane) # LightView(r.tick_lights, lane)
                            THEN r.stale \cup {Head(at.todo)}
                            ELSE r.stale]

\* Sim.__next is over and releases the lock; Sim.__gen_cars finds no lane
\* with car_creation > 0; the iteration ends.
run_next_ends(r) ==
    [r EXCEPT !.in_next = FALSE,
              !.li = 0,
              !.todo = <<>>,
              !.tick_lights = <<>>,
              !.ticks = r.ticks + 1]

\* Sim.__next has cars left to move.
CarsLeft(r) == Locate(r.cars, r.li, r.todo).li <= Len(LaneOrder)

RECURSIVE run_next_moves_all(_)
run_next_moves_all(r) ==
    IF CarsLeft(r) THEN run_next_moves_all(run_next_moves_car(r)) ELSE r

\* One iteration of Sim.__run.
run_tick(r) == run_next_ends(run_next_moves_all(run_next_begins(r)))

\* An update thread runs Sim.__update_traffic_lights under the lock: the
\* exchange is answered from the stream.
run_update(r) ==
    IF r.has_yellow
    THEN [r EXCEPT !.threads = r.threads - 1]
    ELSE LET fetched == Stream(r.flip, r.gets)
         IN  [r EXCEPT !.threads = r.threads - 1,
                       !.gets = Min(r.gets + 1, r.flip),
                       !.lights = update_traffic_lights(r.lights, fetched),
                       !.has_yellow = ChangedLights(r.lights, fetched) # {},
                       !.timer = IF ChangedLights(r.lights, fetched) # {}
                                 THEN "pending" ELSE r.timer]

\* The amber timer expires: change_all_yellow begins, without the lock.
run_timer_fires(r) ==
    [r EXCEPT !.has_yellow = FALSE, !.timer = "idle", !.callback = "clearing"]

\* change_all_yellow ends: its loop over the junction's lights.
run_callback_clears(r) ==
    [r EXCEPT !.lights = clear_all_yellow(r.lights), !.callback = "idle"]

\* ---- one run, car by car

InitNext ==
    /\ AlgoOff
    /\ twin = SimOff
    /\ \E flip \in FlipPoints : sim = NewRun(flip)

NextBegins ==
    /\ sim.pc = "run"
    /\ ~sim.in_next
    /\ sim.ticks < MaxRunTicks
    /\ sim.threads < MaxUpdateThreads
    /\ sim' = run_next_begins(sim)
    /\ UNCHANGED algo_vars
    /\ UNCHANGED twin

NextMovesCar ==
    /\ sim.pc = "run"
    /\ sim.in_next
    /\ CarsLeft(sim)
    /\ sim' = run_next_moves_car(sim)
    /\ UNCHANGED algo_vars
    /\ UNCHANGED twin

NextEnds ==
    /\ sim.pc = "run"
    /\ sim.in_next
    /\ ~CarsLeft(sim)
    /\ sim' = run_next_ends(sim)
    /\ UNCHANGED algo_vars
    /\ UNCHANGED twin

RunUpdates ==
    /\ sim.pc = "run"
    /\ ~sim.in_next
    /\ sim.threads > 0
    /\ sim' = run_update(sim)
    /\ UNCHANGED algo_vars
    /\ UNCHANGED twin

RunTimerFires ==
    /\ sim.pc = "run"
    /\ sim.timer = "pending"
    /\ sim.callback = "idle"
    /\ sim' = run_timer_fires(sim)
    /\ UNCHANGED algo_vars
    /\ UNCHANGED twin

RunCallbackClears ==
    /\ sim.pc = "run"
    /\ sim.callback = "clearing"
    /\ sim' = run_callback_clears(sim)
    /\ UNCHANGED algo_vars
    /\ UNCHANGED twin

NextOfNext ==
    \/ NextBegins
    \/ NextMovesCar
    \/ NextEnds
    \/ RunUpdates
    \/ RunTimerFires
    \/ RunCallbackClears

SpecNext == InitNext /\ [][NextOfNext]_vars

\* C20: within one call of __next, every vehicle is moved on the light
\* state (GREEN / RED and in amber) that was visible when the call began.
C20_LightsFixedDuringNext == sim.pc = "run" /\ twin = SimOff => sim.stale = {}

\* ---- two runs on the same inputs

InitTwin ==
    /\ AlgoOff
    /\ \E flip \in FlipPoints : sim = NewRun(flip) /\ twin = NewRun(flip)

SimTicks ==
    /\ sim.pc = "run" /\ twin # SimOff
    /\ sim.ticks < MaxRunTicks
    /\ sim.threads < MaxUpdateThreads
    /\ sim' = run_tick(sim)
    /\ UNCHANGED algo_vars
    /\ UNCHANGED twin

SimUpdates ==
    /\ sim.pc = "run" /\ twin # SimOff
    /\ sim.threads > 0
    /\ sim' = run_update(sim)
    /\ UNCHANGED algo_vars
    /\ UNCHANGED twin

SimTimerFires ==
    /\ sim.pc = "run" /\ twin # SimOff
    /\ sim.timer = "pending"
    /\ sim.callback = "idle"
    /\ sim' = run_timer_fires(sim)
    /\ UNCHANGED algo_vars
    /\ UNCHANGED twin

SimCallbackClears ==
    /\ sim.pc = "run" /\ twin # SimOff
    /\ sim.callback = "clearing"
    /\ sim' = run_callback_clears(sim)
    /\ UNCHANGED algo_vars
    /\ UNCHANGED twin

TwinTicks ==
    /\ sim.pc = "run" /\ twin # SimOff
    /\ twin.ticks < MaxRunTicks
    /\ twin.threads < MaxUpdateThreads
    /\ twin' = run_tick(twin)
    /\ UNCHANGED algo_vars
    /\ UNCHANGED sim

TwinUpdates ==
    /\ sim.pc = "run" /\ twin # SimOff
    /\ twin.threads > 0
    /\ twin' = run_update(twin)
    /\ UNCHANGED algo_vars
    /\ UNCHANGED sim

TwinTimerFires ==
    /\ sim.pc = "run" /\ twin # SimOff
    /\ twin.timer = "pending"
    /\ twin.callback = "idle"
    /\ twin' = run_timer_fires(twin)
    /\ UNCHANGED algo_vars
    /\ UNCHANGED sim

TwinCallbackClears ==
    /\ sim.pc = "run" /\ twin # SimOff
    /\ twin.callback = "clearing"
    /\ twin' = run_callback_clears(twin)
    /\ UNCHANGED algo_vars
    /\ UNCHANGED sim

NextTwin ==
    \/ SimTicks
    \/ SimUpdates
    \/ SimTimerFires
    \/ SimCallbackClears
    \/ TwinTicks
    \/ TwinUpdates
    \/ TwinTimerFires
    \/ TwinCallbackClears

SpecTwin == InitTwin /\ [][NextTwin]_vars

\* C14: two runs of the Simulator on the same topology, the same light-state
\* stream and the same random draws have the same vehicles at the same
\* distances and velocities after the same number of ticks.
C14_SameTrajectories ==
    sim.pc = "run" /\ twin # SimOff /\ sim.ticks = twin.ticks => sim.cars = twin.cars

\* ------------------------------------------- further properties

\* C27: the compatibility relation of the enumerator (the conjunction of
\* not_entering_the_same_road, not_intersect_on_straight and
\* not_intersect_on_turn_left) is reflexive and symmetric on the lights of
\* every junction.
C27_CompatibleReflexiveSymmetric ==
    lastOp \in {"build", "calculate"} =>
        \A a \in DOMAIN get_traffic_lights(junction) :
            /\ Compatible(junction, get_traffic_lights(junction)[a],
                          get_traffic_lights(junction)[a])
            /\ \A b \in DOMAIN get_traffic_lights(junction) :
                   Compatible(junction, get_traffic_lights(junction)[a],
                              get_traffic_lights(junction)[b])
                       <=> Compatible(junction, get_traffic_lights(junction)[b],
                                      get_traffic_lights(junction)[a])

\* The combinations were calculated for a junction with a left-turning light
\* and, from another side, a light that does not turn left, which conflict,
\* and with two different lights that are compatible.
C27_Witness ==
    /\ lastOp = "calculate"
    /\ \E a, b \in DOMAIN get_traffic_lights(junction) :
         LET tl1 == get_traffic_lights(junction)[a]
             tl2 == get_traffic_lights(junction)[b]
         IN  /\ ~check_if_turn_left(FromSide(junction, tl1), ToSidesDest(junction, tl1))
             /\ check_if_turn_left(FromSide(junction, tl2), ToSidesDest(junction, tl2))
             /\ FromSide(junction, tl1) # FromSide(junction, tl2)
             /\ ~Compatible(junction, tl1, tl2)
    /\ \E a, b \in DOMAIN get_traffic_lights(junction) :
         /\ a # b
         /\ Compatible(junction, get_traffic_lights(junction)[a],
                       get_traffic_lights(junction)[b])

\* C30: calculate_possible_active_lights is deterministic: whatever order the
\* de-duplicated set of valid subsets is enumerated in, another call on the
\* same topology returns the phases the first call returned, in the same
\* order.
C30_SameResultOnEveryCall ==
    lastOp = "calculate" =>
        \A again \in calculate_possible_active_lights(junction) :
            again = combinations

\* The same phases, whatever their order in the returned list.
C30_SamePhasesOnEveryCall ==
    lastOp = "calculate" =>
        \A again \in calculate_possible_active_lights(junction) :
            Range(again) = Range(combinations)

\* C28: for every vehicle and tick, the vehicle's velocity after the tick
\* differs from its velocity before the tick by at most
\* max(max_accel, max_decel) * dt.
C28_VelocityStepBounded ==
    [][sim.pc = "drive" =>
          \A before \in CarsAt(sim.cars) : \A after \in CarsAt(sim'.cars) :
              before.id = after.id =>
                  /\ after.velocity - before.velocity <= Max(max_accel, max_decel)
                  /\ before.velocity - after.velocity <= Max(max_accel, max_decel)]_vars

\* ------------------------------------- the life cycle of the Simulator

\* The calls of Sim.start / Sim.resume that are followed
MaxStarts == 2

\* The iterations of Sim.__run that are followed, over all its threads
MaxLifeTicks == 3

\* The cars Sim.__gen_cars creates in a life cycle
MaxLifeCars == 1

\* The AlgoRunner threads the server is followed for
MaxControllers == 2

\* The light of lane 110, the one lane with car_creation > 0.
LifeLights(state) == <<SimLight(1, <<110>>, <<110>>, state, FALSE)>>

\* junction.get_traffic_light_by_lane_id(lane_id) is not None
has_light(lights, lane) == \E k \in DOMAIN lights : lane \in Range(lights[k].origins)

\* Sim.__init__: no thread, the stop event clear, no cars. The server has no
\* junction and runs no controller. stopped, missed_stop and late_ingest
\* observe the life cycle: stop() has returned and no start() has begun
\* since; an iteration began while a stop() was waiting; an update thread
\* applied its states after the __next of the iteration that started it.
InitLife ==
    /\ AlgoOff
    /\ twin = SimOff
    /\ \E state \in BOOLEAN :
         sim = [pc |-> "life",
                lights |-> LifeLights(state),
                cars |-> NoSimCars,
                lane_len |-> TrafficLaneLen,
                CAR_ID |-> 0,
                has_yellow |-> FALSE,
                client_failed |-> FALSE,
                stop_event |-> FALSE,
                thread |-> 0,
                loops |-> <<>>,
                pending |-> {},
                timer |-> "idle",
                up |-> TRUE,
                srv |-> [built |-> FALSE, lights |-> <<>>, controllers |-> 0],
                starter |-> "idle",
                stopper |-> "idle",
                join_on |-> 0,
                starts |-> 0,
                ticks |-> 0,
                moves |-> 0,
                stopped |-> FALSE,
                missed_stop |-> FALSE,
                late_ingest |-> FALSE]

\* threading.Thread.is_alive() of the t-th thread of Sim.__run
is_alive(loops, t) == t \in DOMAIN loops /\ loops[t] \notin {"exited", "crashed"}

\* app.post_junction_info / app.build_junction: the server's junction after
\* a post of the Simulator's junction over a connection that is up or down.
posted(srv, up, lights) ==
    IF up /\ srv.built THEN [srv EXCEPT !.lights = junction_info_json(lights)] ELSE srv

\* Sim.start / Sim.resume, line 65: self.__stop_event.clear()
StartClears ==
    /\ sim.pc = "life"
    /\ sim.starter = "idle"
    /\ sim.starts < MaxStarts
    /\ sim' = [sim EXCEPT !.stop_event = FALSE,
                          !.starter = "cleared",
                          !.starts = sim.starts + 1,
                          !.stopped = FALSE]
    /\ UNCHANGED algo_vars
    /\ UNCHANGED twin

\* Sim.start, lines 66-87: nothing when the thread is alive; otherwise
\* send_build_junction, start_algorithm (a new AlgoRunner and its thread on
\* the server) and a new thread of Sim.__run.
StartRuns ==
    /\ sim.pc = "life"
    /\ sim.starter = "cleared"
    /\ IF is_alive(sim.loops, sim.thread)
       THEN sim' = [sim EXCEPT !.starter = "idle"]
       ELSE sim' = [sim EXCEPT
                      !.starter = "idle",
                      !.srv = IF sim.up
                              THEN [built |-> TRUE,
                                    lights |-> junction_info_json(sim.lights),
                                    controllers |-> Min(sim.srv.controllers + 1, MaxControllers)]
                              ELSE sim.srv,
                      !.loops = Append(sim.loops, "init"),
                      !.thread = Len(sim.loops) + 1]
    /\ UNCHANGED algo_vars
    /\ UNCHANGED twin

\* Sim.stop / Sim.pause, lines 391-392: self.__stop_event.set(), and the
\* return when there is no thread.
StopSets ==
    /\ sim.pc = "life"
    /\ sim.stopper = "idle"
    /\ IF sim.thread = 0
       THEN sim' = [sim EXCEPT !.stop_event = TRUE,
                               !.stopped = (sim.starter = "idle")]
       ELSE sim' = [sim EXCEPT !.stop_event = TRUE,
                               !.stopper = "joining",
                               !.join_on = sim.thread]
    /\ UNCHANGED algo_vars
    /\ UNCHANGED twin

\* Sim.stop, lines 393-394: self.__thread.join() returns, self.__thread = None
StopJoins ==
    /\ sim.pc = "life"
    /\ sim.stopper = "joining"
    /\ ~is_alive(sim.loops, sim.join_on)
    /\ sim' = [sim EXCEPT !.stopper = "idle",
                          !.join_on = 0,
                          !.thread = 0,
                          !.stopped = (sim.starter = "idle")]
    /\ UNCHANGED algo_vars
    /\ UNCHANGED twin

\* Sim.__run, lines 94-100: the initial Client.send_junction_info
LifeRunBegins ==
    /\ sim.pc = "life"
    /\ \E t \in DOMAIN sim.loops :
         /\ sim.loops[t] = "init"
         /\ sim' = [sim EXCEPT !.loops[t] = "head",
                               !.srv = posted(sim.srv, sim.up, sim.lights)]
    /\ UNCHANGED algo_vars
    /\ UNCHANGED twin

\* Sim.__run, lines 102-120: the test of the stop event; then
\* send_junction_info and the start of an update thread, or
\* __set_all_lights_red with __client_failed set.
LifeHead ==
    /\ sim.pc = "life"
    /\ \E t \in DOMAIN sim.loops :
         /\ sim.loops[t] = "head"
         /\ IF sim.stop_event
            THEN sim' = [sim EXCEPT !.loops[t] = "exited"]
            ELSE /\ sim.ticks < MaxLifeTicks
                 /\ Cardinality(sim.pending) < MaxUpdateThreads
                 /\ sim' = [sim EXCEPT
                              !.loops[t] = "next",
                              !.ticks = sim.ticks + 1,
                              !.srv = IF sim.client_failed THEN sim.srv
                                      ELSE posted(sim.srv, sim.up, sim.lights),
                              !.pending = IF sim.client_failed THEN sim.pending
                                          ELSE sim.pending \cup {sim.moves},
                              !.lights = IF sim.client_failed
                                         THEN set_all_lights_red(sim.lights)
                                         ELSE sim.lights,
                              !.missed_stop = sim.missed_stop \/ sim.stopper = "joining"]
    /\ UNCHANGED algo_vars
    /\ UNCHANGED twin

\* Sim.__run, line 123: self.__next(), under the lock
LifeNext ==
    /\ sim.pc = "life"
    /\ \E t \in DOMAIN sim.loops :
         /\ sim.loops[t] = "next"
         /\ sim' = [sim EXCEPT !.loops[t] = "gen",
                               !.cars = next(sim.cars, sim.lights, sim.lane_len),
                               !.moves = sim.moves + 1]
    /\ UNCHANGED algo_vars
    /\ UNCHANGED twin

\* Sim.__run, line 126: self.__gen_cars(), under the lock. The Poisson draw
\* of lane 110 is 0 or 1; with a draw of 1 the car's destination is drawn
\* from the lane's light, and the AttributeError of a lane without a light
\* ends __run, which catches nothing.
LifeGenCars ==
    /\ sim.pc = "life"
    /\ \E t \in DOMAIN sim.loops :
         /\ sim.loops[t] = "gen"
         /\ \/ sim' = [sim EXCEPT !.loops[t] = "publish"]
            \/ /\ sim.CAR_ID < MaxLifeCars
               /\ IF has_light(sim.lights, 110)
                  THEN \E dest \in light_destinations(sim.lights, 110) :
                       \E made \in {gen_cars(sim.cars, sim.CAR_ID, LaneOrder,
                                             (110 :> [velocity |-> max_vel, dest |-> dest]))} :
                         sim' = [sim EXCEPT !.loops[t] = "publish",
                                            !.cars = made.cars,
                                            !.CAR_ID = made.CAR_ID]
                  ELSE sim' = [sim EXCEPT !.loops[t] = "crashed",
                                          !.CAR_ID = sim.CAR_ID + 1]
    /\ UNCHANGED algo_vars
    /\ UNCHANGED twin

\* Sim.__run, lines 128-134: the junction and the collision count go to the
\* statistics service, and the thread sleeps to the end of the time step.
LifePublish ==
    /\ sim.pc = "life"
    /\ \E t \in DOMAIN sim.loops :
         /\ sim.loops[t] = "publish"
         /\ sim' = [sim EXCEPT !.loops[t] = "head"]
    /\ UNCHANGED algo_vars
    /\ UNCHANGED twin

\* An update thread, started when tag calls of __next were over, runs
\* Sim.__update_traffic_lights under the lock.
LifeUpdate ==
    /\ sim.pc = "life"
    /\ \E tag \in sim.pending :
         IF sim.has_yellow
         THEN sim' = [sim EXCEPT !.pending = sim.pending \ {tag}]
         ELSE \E fetched \in {get_traffic_lights_states(sim.up, sim.srv)} :
                sim' = [sim EXCEPT
                          !.pending = sim.pending \ {tag},
                          !.lights = update_traffic_lights(sim.lights, fetched),
                          !.has_yellow = ChangedLights(sim.lights, fetched) # {},
                          !.timer = IF ChangedLights(sim.lights, fetched) # {}
                                    THEN "pending" ELSE sim.timer,
                          !.late_ingest = sim.late_ingest \/ tag < sim.moves]
    /\ UNCHANGED algo_vars
    /\ UNCHANGED twin

\* The amber timer expires and runs change_all_yellow.
LifeTimerFires ==
    /\ sim.pc = "life"
    /\ sim.timer = "pending"
    /\ sim' = [sim EXCEPT !.timer = "idle",
                          !.has_yellow = FALSE,
                          !.lights = clear_all_yellow(sim.lights)]
    /\ UNCHANGED algo_vars
    /\ UNCHANGED twin

\* A controller thread on the server writes the states of its phase.
LifeControllerDecides ==
    /\ sim.pc = "life"
    /\ sim.srv.controllers > 0
    /\ sim.srv.lights # <<>>
    /\ \E greens \in SUBSET {1} :
         sim' = [sim EXCEPT !.srv =
                    [built |-> sim.srv.built,
                     lights |-> [i \in DOMAIN sim.srv.lights |->
                                    [id |-> sim.srv.lights[i].id,
                                     origins |-> sim.srv.lights[i].origins,
                                     destinations |-> sim.srv.lights[i].destinations,
                                     state |-> (sim.srv.lights[i].id \in greens)]],
                     controllers |-> sim.srv.controllers]]
    /\ UNCHANGED algo_vars
    /\ UNCHANGED twin

\* The connection between the Simulator and the server is cut, or is back.
LifeConnectionChanges ==
    /\ sim.pc = "life"
    /\ sim' = [sim EXCEPT !.up = ~sim.up]
    /\ UNCHANGED algo_vars
    /\ UNCHANGED twin

NextLife ==
    \/ StartClears
    \/ StartRuns
    \/ StopSets
    \/ StopJoins
    \/ LifeRunBegins
    \/ LifeHead
    \/ LifeNext
    \/ LifeGenCars
    \/ LifePublish
    \/ LifeUpdate
    \/ LifeTimerFires
    \/ LifeControllerDecides
    \/ LifeConnectionChanges

SpecLife == InitLife /\ [][NextLife]_vars

\* C22: an exception raised inside one iteration of Sim.__run (ingesting
\* the lights, moving, spawning or publishing) is caught and the iteration
\* skipped: no thread of Sim.__run is ended by an exception.
C22_TickExceptionCaught ==
    sim.pc = "life" => \A t \in DOMAIN sim.loops : sim.loops[t] # "crashed"

\* C23: once stop() has set the stop event, the loop of Sim.__run sees it at
\* its next test and begins no further iteration, whatever start(), pause()
\* and resume() calls are interleaved with it, and once stop() has returned
\* no thread of Sim.__run is alive.
C23_StopEndsTheLoop ==
    sim.pc = "life" =>
        /\ ~sim.missed_stop
        /\ sim.stopped => \A t \in DOMAIN sim.loops : ~is_alive(sim.loops, t)

\* C24: once stop() has returned, nothing that was started since start() is
\* still active: no update thread is waiting to write the lights, no amber
\* timer is waiting to clear the flags, and no controller thread of the run
\* is left on the server.
C24_NothingActiveAfterStop ==
    sim.pc = "life" /\ sim.stopped =>
        /\ sim.pending = {}
        /\ sim.timer = "idle"
        /\ sim.srv.controllers = 0

\* C29: the light states an iteration of Sim.__run ingests are applied
\* before that iteration moves any vehicle: no update thread applies its
\* states after the __next of the iteration that started it.
C29_IngestBeforeMove == sim.pc = "life" => ~sim.late_ingest

\* ------------------------------- the controller under topology updates

\* The junctions posted to a running controller: one light, two crossing
\* lights, four straight lights, and three lights of road 11 with a right
\* turn from road 12.
UpdatePicks == {{1}, {2, 12}, {2, 7, 12, 17}, {1, 2, 3, 6}}

\* junction.get_traffic_light_by_id(id) is None for a light of the phase
LacksLight(j, comb) == \E i \in DOMAIN comb : comb[i] \notin LightIds(j)

\* The first phase of self.combinations that names a light the junction
\* lacks, as its index; 0 when every phase finds its lights.
FirstFailing(j) ==
    IF \E k \in DOMAIN combinations : LacksLight(j, combinations[k])
    THEN CHOOSE k \in DOMAIN combinations :
             /\ LacksLight(j, combinations[k])
             /\ \A m \in 1 .. (k - 1) : ~LacksLight(j, combinations[m])
    ELSE 0

\* The lights of a phase that come before the first one the junction lacks.
BeforeMissing(j, comb) ==
    LET first == CHOOSE i \in DOMAIN comb :
                     /\ comb[i] \notin LightIds(j)
                     /\ \A m \in 1 .. (i - 1) : comb[m] \in LightIds(j)
    IN  SubSeq(comb, 1, first - 1)

\* _update_car_wait_times up to the AttributeError of tl.get_origins() on a
\* light the junction lacks: every phase is pruned, the phases before the
\* failing one are updated, and the failing one up to its missing light.
update_car_wait_times_raising(cwt, current_time) ==
    LET failing == FirstFailing(junction)
        reached == {combinations[k] : k \in 1 .. failing}
    IN  [comb \in DOMAIN cwt \cup reached |->
            LET old == IF comb \in DOMAIN cwt THEN cwt[comb] ELSE EmptyDict
                kept == {cid \in DOMAIN old : cid \in current_car_ids}
                seen == IF comb = combinations[failing]
                        THEN CarsOfCombination(junction, BeforeMissing(junction, comb))
                        ELSE IF comb \in reached
                             THEN CarsOfCombination(junction, comb)
                             ELSE {}
            IN  [cid \in kept \cup seen |->
                    IF cid \in seen
                    THEN IF cid \in kept
                         THEN WaitEntry(current_time - old[cid].start_time, old[cid].start_time)
                         ELSE WaitEntry(0, current_time)
                    ELSE old[cid]]]

\* A loop whose thread ends with the exception of a tick.
after_exception_Ends(running) == "none"

\* start(): `except Exception as e: logging.error(...)` inside `while True`:
\* the strategy whose loop is running after a tick that raised.
after_exception(running) == running

\* AlgoRunner.set_junction_info: the controller's junction is replaced; its
\* combinations and its maps stay as __init__ made them. The updates are
\* followed for the strategies that look their lights up by id;
\* RoundRobinController walks the junction's own list of lights.
SetJunctionInfo ==
    /\ controller \in {"smart", "volume"}
    /\ \E picked \in UpdatePicks : junction' = JunctionOf(picked)
    /\ ForgetTick
    /\ UNCHANGED <<cars, next_car_id, combinations, controller, now, car_wait_times,
                   last_served_time, current_combination, rr_i, is_first_time,
                   current_traffic_light_id, activations>>
    /\ UNCHANGED <<sim, twin>>

\* An iteration of SmartTrafficController.start that finds its lights.
CtlSmartTick == FirstFailing(junction) = 0 /\ SmartTick

\* An iteration of SmartTrafficController.start in which
\* _update_car_wait_times raises: no scores, no activation.
CtlSmartRaises ==
    /\ controller = "smart"
    /\ FirstFailing(junction) # 0
    /\ car_wait_times' = update_car_wait_times_raising(car_wait_times, now)
    /\ controller' = after_exception(controller)
    /\ scores' = EmptyDict
    /\ prev_combination' = current_combination
    /\ tick_time' = [time |-> now, last_served |-> last_served_time]
    /\ lastOp' = "smart_error"
    /\ UNCHANGED <<junction, cars, next_car_id, combinations, now, last_served_time,
                   current_combination, rr_i, is_first_time, current_traffic_light_id,
                   activations>>
    /\ UNCHANGED <<sim, twin>>

\* An iteration of VolumeBasedController.start that finds its lights.
CtlVolumeTick == FirstFailing(junction) = 0 /\ VolumeTick

\* An iteration of VolumeBasedController.start in which compute_scores
\* raises: the scores of the phases before the failing one, no activation.
CtlVolumeRaises ==
    /\ controller = "volume"
    /\ FirstFailing(junction) # 0
    /\ scores' = [comb \in {combinations[k] : k \in 1 .. (FirstFailing(junction) - 1)} |->
                     VolumeScore(junction, comb)]
    /\ controller' = after_exception(controller)
    /\ lastOp' = "volume_error"
    /\ UNCHANGED <<junction, cars, next_car_id, combinations, now, car_wait_times,
                   last_served_time, current_combination, rr_i, is_first_time,
                   current_traffic_light_id, activations, tick_time, prev_combination>>
    /\ UNCHANGED <<sim, twin>>

NextCtl ==
    \/ SetJunctionInfo
    \/ CtlSmartTick
    \/ CtlSmartRaises
    \/ CtlVolumeTick
    \/ CtlVolumeRaises
    \/ RoundRobinTick
    \/ ClockAdvances
    \/ \E lane \in LaneIds : CarArrives(lane)
    \/ \E lane \in LaneIds : CarExits(lane)

SpecCtl == Init /\ [][NextCtl]_vars

\* The ticks that ended in the except clause of start().
TickRaised == {"smart_error", "volume_error", "rr_error"}

\* C21: an exception raised inside one control tick (a phase that names a
\* light the junction lacks, a controller without phases) is caught and the
\* tick is skipped: the tick activates nothing, the loop of start() is still
\* running after it, and its next tick can be taken.
C21_TickExceptionCaught ==
    /\ [][lastOp' \in TickRaised =>
             /\ controller' = controller
             /\ controller' \in {"smart", "volume", "rr"}
             /\ GreenIds(junction') = GreenIds(junction)
             /\ current_combination' = current_combination]_vars
    /\ [](lastOp \in TickRaised =>
             ENABLED (CtlSmartTick \/ CtlSmartRaises \/ CtlVolumeTick \/ CtlVolumeRaises
                         \/ RoundRobinTick))

\* A SmartTrafficController tick raised on a phase whose light the updated
\* junction lacks, after it had recorded a waiting car for an earlier phase;
\* the loop is running.
C21_Witness ==
    /\ lastOp = "smart_error"
    /\ controller = "smart"
    /\ FirstFailing(junction) > 1
    /\ \E comb \in DOMAIN car_wait_times : DOMAIN car_wait_times[comb] # {}

\* C26: once a topology update has been delivered to a running controller,
\* the phases its ticks score and activate are the enumeration of the
\* junction it holds, and its per-phase state (the wait maps, last_served)
\* has no entry for a phase that is not in that enumeration.
C26_PhasesFollowTopology ==
    lastOp \in {"smart_tick", "smart_idle", "smart_error"} =>
        /\ combinations \in calculate_possible_active_lights(junction)
        /\ DOMAIN car_wait_times \subseteq Range(combinations)
        /\ DOMAIN last_served_time \subseteq Range(combinations)
        /\ DOMAIN scores \subseteq Range(combinations)

\* C25: the controller's cyclic task ends with stop(): once the stop of the
\* run has returned, no controller task of the run writes a light state.
C25_NoWriteAfterStop ==
    [][~(sim.pc = "life" /\ sim.stopped /\ LifeControllerDecides)]_vars

\* ------------------------------------------------- the three conflicts

\* The movements a light permits, as pairs of the side its road comes from
\* and the side the destination road leads to.
Movements(l) ==
    {<<Roads[l.origins[1] \div 10].from_side, Roads[l.destinations[i] \div 10].to_side>> :
        i \in DOMAIN l.destinations}

LeftTurns == {<<NORTH, EAST>>, <<WEST, NORTH>>, <<SOUTH, WEST>>, <<EAST, SOUTH>>}

RightTurns == {<<NORTH, WEST>>, <<WEST, SOUTH>>, <<SOUTH, EAST>>, <<EAST, NORTH>>}

\* (1) lights of different origin roads share no destination road
NoMerge(l1, l2) ==
    l1.origins[1] \div 10 # l2.origins[1] \div 10 =>
        {l1.destinations[i] \div 10 : i \in DOMAIN l1.destinations}
            \cap {l2.destinations[i] \div 10 : i \in DOMAIN l2.destinations} = {}

\* (2) not both straight through on perpendicular origin roads
NoStraightCross(l1, l2) ==
    ~(/\ (Roads[l1.origins[1] \div 10].from_side + Roads[l2.origins[1] \div 10].from_side) % 2 = 1
      /\ \E m \in Movements(l1) : (m[1] + m[2]) % 2 = 0
      /\ \E m \in Movements(l2) : (m[1] + m[2]) % 2 = 0)

\* (3) a left turn of l1 is met only by a light of the same origin road or by
\* a light that permits right turns only
LeftTurnClear(l1, l2) ==
    Movements(l1) \cap LeftTurns # {} =>
        \/ l1.origins[1] \div 10 = l2.origins[1] \div 10
        \/ Movements(l2) \subseteq RightTurns

\* C32: for any two lights of a junction, the compatibility that
\* calculate_possible_active_lights decides (the second light is listed for
\* the first one) is the conjunction of the three sub-predicates: no shared
\* destination road from different origin roads, not both straight on
\* perpendicular roads, and a left turn of either light met only by a light
\* of the same origin road or a right-turn-only light.
C32_CompatibleIsTheThreeConflicts ==
    lastOp \in {"build", "calculate"} =>
        \A a \in DOMAIN get_traffic_lights(junction) :
            \A b \in DOMAIN get_traffic_lights(junction) :
                LET l1 == get_traffic_lights(junction)[a]
                    l2 == get_traffic_lights(junction)[b]
                IN  a # b =>
                        (l2.id \in Lookup(possible_combinations(junction), l1.id)
                            <=> /\ NoMerge(l1, l2)
                                /\ NoStraightCross(l1, l2)
                                /\ LeftTurnClear(l1, l2)
                                /\ LeftTurnClear(l2, l1))

\* The combinations were calculated for a junction in which a left turn
\* meets a light that permits a right turn and a straight movement from
\* another road (a conflict), and in which a left turn meets a
\* right-turn-only light of another road (no conflict).
C32_Witness ==
    /\ lastOp = "calculate"
    /\ \E a, b \in DOMAIN get_traffic_lights(junction) :
         LET l1 == get_traffic_lights(junction)[a]
             l2 == get_traffic_lights(junction)[b]
         IN  /\ Movements(l1) \cap LeftTurns # {}
             /\ l1.origins[1] \div 10 # l2.origins[1] \div 10
             /\ Movements(l2) \cap RightTurns # {}
             /\ ~(Movements(l2) \subseteq RightTurns)
             /\ l2.id \notin Lookup(possible_combinations(junction), l1.id)
    /\ \E a, b \in DOMAIN get_traffic_lights(junction) :
         LET l1 == get_traffic_lights(junction)[a]
             l2 == get_traffic_lights(junction)[b]
         IN  /\ Movements(l1) \cap LeftTurns # {}
             /\ l1.origins[1] \div 10 # l2.origins[1] \div 10
             /\ Movements(l2) \subseteq RightTurns
             /\ l2.id \in Lookup(possible_combinations(junction), l1.id)

\* C37: every light of the junction belongs to at least one phase returned
\* by calculate_possible_active_lights, for every junction with at least one
\* light.
C37_EveryLightInSomePhase ==
    lastOp = "calculate" =>
        \A k \in DOMAIN get_traffic_lights(junction) :
            \E p \in DOMAIN combinations :
                get_traffic_lights(junction)[k].id \in Range(combinations[p])

\* C38: in one call of __next the kinematic update is applied exactly once
\* to every vehicle that is in the junction when the tick starts: a vehicle
\* that is still there after the tick, also one that was transferred to a
\* destination lane iterated later, has the velocity one update of its
\* state at the start of the tick gives.
C38_MovedExactlyOnce ==
    [][(sim.pc = "drive" /\ sim'.cars # sim.cars) =>
          \A lane \in DOMAIN sim.cars : \A k \in DOMAIN sim.cars[lane] :
              \A after \in CarsAt(sim'.cars) :
                  after.id = sim.cars[lane][k].id =>
                      after.velocity =
                          Kinematics(sim.cars[lane][k],
                                     check_if_green(sim.lights, lane),
                                     distance_to_car_ahead(sim.cars[lane],
                                                           sim.cars[lane][k])).velocity]_vars

C39_AmberOnlyUnderHasYellow ==
    sim.pc = "loop" =>
        /\ (\E i \in DOMAIN sim.lights : get_is_yellow(sim.lights[i])) => sim.has_yellow
        /\ sim.has_yellow => sim.timer = "pending"

\* The vehicles on the origin lanes of the lights of a phase.
OnOriginLanes(j, phase) ==
    UNION {Range(cars[lane]) :
              lane \in UNION {Range(get_traffic_light_by_id(j, phase[i]).origins) :
                                 i \in DOMAIN phase}}

\* The vehicles present in some lane.
PresentVehicles == UNION {Range(cars[lane]) : lane \in DOMAIN cars}

MaxPosts == 2

\* The junction the server holds: one light per road, each straight on.
ServerJunction == JunctionOf({2, 7, 12, 17})

\* tl.get_state() of the lights of a junction, by light id
StatesOf(j) == [id \in LightIds(j) |-> get_traffic_light_by_id(j, id).state]

\* app.post_junction_info: a Junction of new TrafficLight objects that have
\* the posted states.
PostedJunction(j, states) ==
    [traffic_lights |->
        [i \in DOMAIN j.traffic_lights |->
            TrafficLight(j.traffic_lights[i].id, j.traffic_lights[i].origins,
                         j.traffic_lights[i].destinations,
                         states[j.traffic_lights[i].id])]]

\* The scores a tick computes from its wait tables, whatever the snapshots
\* hold: no demand, or a demand above the hysteresis threshold.
ServerScores == [Range(combinations) -> {0, 2 * hysteresis_threshold}]

\* The server after /junction-info and /start-algorithm: the controller holds
\* the posted junction, its lights RED, and has enumerated its phases. The
\* Simulator has the same states. version counts the Junction objects the
\* controller was given, and so names the object self.junction refers to;
\* roads_of, lanes_of and lights_of are the objects the tick in progress read
\* its cars from, read its lanes from and writes its lights to (-1: not yet).
\* unread, decided, lost and mixed observe the exchange: a decision the
\* Simulator has not been handed yet, and its states; a decision that was
\* replaced before it was handed out; an answer that was taken from a junction
\* whose lights were being switched and is neither the states before the
\* switch nor the decision.
InitServer ==
    /\ junction = ServerJunction
    /\ cars = NoCars
    /\ next_car_id = 1
    /\ combinations \in calculate_possible_active_lights(ServerJunction)
    /\ controller = "smart"
    /\ now = 0
    /\ SmartInit(0)
    /\ scores = EmptyDict
    /\ rr_i = 0
    /\ is_first_time = TRUE
    /\ current_traffic_light_id = 100
    /\ activations = <<>>
    /\ tick_time = NoTick
    /\ prev_combination = None
    /\ lastOp = "server"
    /\ twin = SimOff
    /\ sim = [pc |-> "server",
              version |-> 0,
              client |-> StatesOf(ServerJunction),
              tick |-> "idle",
              roads_of |-> -1,
              lanes_of |-> -1,
              lights_of |-> -1,
              best_combination |-> None,
              written |-> 0,
              from_states |-> StatesOf(ServerJunction),
              unread |-> FALSE,
              decided |-> StatesOf(ServerJunction),
              lost |-> FALSE,
              mixed |-> FALSE]

\* POST /junction-info by the Simulator: app.post_junction_info builds a new
\* Junction with the Simulator's states, makes it the global junction and
\* hands it to the controller (AlgoRunner.set_junction_info under its lock,
\* BaseAlgorithm.set_junction_info: self.junction = junction).
PostJunctionInfo ==
    /\ sim.pc = "server"
    /\ sim.version < MaxPosts
    /\ junction' = PostedJunction(junction, sim.client)
    /\ sim' = [sim EXCEPT
                 !.version = sim.version + 1,
                 !.unread = FALSE,
                 !.lost = sim.lost \/ (sim.unread /\ sim.client # sim.decided)]
    /\ UNCHANGED <<cars, next_car_id, combinations, controller, now, car_wait_times,
                   last_served_time, current_combination, scores, rr_i, is_first_time,
                   current_traffic_light_id, activations, tick_time, prev_combination,
                   lastOp, twin>>

\* GET /traffic-light-state by the Simulator's update thread:
\* AlgoRunner.get_current_state takes no lock and returns the lights of
\* self.junction; the Simulator takes over the states of the answer.
GetTrafficLightState ==
    /\ sim.pc = "server"
    /\ sim' = [sim EXCEPT
                 !.client = StatesOf(junction),
                 !.unread = FALSE,
                 !.mixed = sim.mixed \/
                     (/\ sim.tick = "writing"
                      /\ sim.lights_of = sim.version
                      /\ StatesOf(junction) # sim.from_states
                      /\ StatesOf(junction) #
                             StatesOf(ActivateLights(junction, sim.best_combination)))]
    /\ UNCHANGED algo_vars
    /\ UNCHANGED twin

\* SmartTrafficController.start, the first statements of
\* _update_car_wait_times: self.junction.get_roads() for the cars present.
TickReadsRoads ==
    /\ sim.pc = "server"
    /\ sim.tick = "idle"
    /\ sim' = [sim EXCEPT !.tick = "roads",
                          !.roads_of = sim.version,
                          !.lanes_of = -1,
                          !.lights_of = -1]
    /\ UNCHANGED algo_vars
    /\ UNCHANGED twin

\* The loops of _update_car_wait_times: self.junction.get_traffic_light_by_id
\* and self.junction.get_road_by_id for the lanes of every phase; then
\* _compute_phase_scores and the choice of the phase.
TickReadsLanes ==
    /\ sim.pc = "server"
    /\ sim.tick = "roads"
    /\ \E sc \in ServerScores :
         sim' = [sim EXCEPT !.tick = "lanes",
                            !.lanes_of = sim.version,
                            !.best_combination = ChoosePhase(sc, current_combination)]
    /\ UNCHANGED algo_vars
    /\ UNCHANGED twin

\* for tl in self.junction.get_traffic_lights(): the list the loop walks.
TickBeginsActivation ==
    /\ sim.pc = "server"
    /\ sim.tick = "lanes"
    /\ sim' = [sim EXCEPT !.tick = "writing",
                          !.lights_of = sim.version,
                          !.written = 0,
                          !.from_states = StatesOf(junction)]
    /\ UNCHANGED algo_vars
    /\ UNCHANGED twin

\* One light of the loop: tl.green() or tl.red(). The light belongs to the
\* junction the loop began on; the controller's junction has it only while
\* no newer junction was posted.
TickSwitchesLight ==
    /\ sim.pc = "server"
    /\ sim.tick = "writing"
    /\ sim.written < Len(junction.traffic_lights)
    /\ junction' =
         IF sim.lights_of = sim.version
         THEN [junction EXCEPT !.traffic_lights[sim.written + 1].state =
                  (junction.traffic_lights[sim.written + 1].id
                       \in Range(sim.best_combination))]
         ELSE junction
    /\ sim' = [sim EXCEPT !.written = sim.written + 1]
    /\ UNCHANGED <<cars, next_car_id, combinations, controller, now, car_wait_times,
                   last_served_time, current_combination, scores, rr_i, is_first_time,
                   current_traffic_light_id, activations, tick_time, prev_combination,
                   lastOp, twin>>

\* The loop is over: self.current_combination and last_served_time, and the
\* tick ends.
TickEnds ==
    /\ sim.pc = "server"
    /\ sim.tick = "writing"
    /\ sim.written = Len(junction.traffic_lights)
    /\ current_combination' = sim.best_combination
    /\ last_served_time' = [last_served_time EXCEPT ![sim.best_combination] = now]
    /\ sim' = [sim EXCEPT
                 !.tick = "idle",
                 !.unread = TRUE,
                 !.decided = StatesOf(ActivateLights(junction, sim.best_combination)),
                 !.lost = sim.lost \/
                     StatesOf(junction) #
                         StatesOf(ActivateLights(junction, sim.best_combination))]
    /\ UNCHANGED <<junction, cars, next_car_id, combinations, controller, now,
                   car_wait_times, scores, rr_i, is_first_time,
                   current_traffic_light_id, activations, tick_time, prev_combination,
                   lastOp, twin>>

NextServer ==
    \/ PostJunctionInfo
    \/ GetTrafficLightState
    \/ TickReadsRoads
    \/ TickReadsLanes
    \/ TickBeginsActivation
    \/ TickSwitchesLight
    \/ TickEnds

SpecServer == InitServer /\ [][NextServer]_vars

\* C34: a control tick works on one junction snapshot for its whole
\* duration: the junction whose roads it reads for the cars present, the
\* junction whose lights and lanes it reads for the wait times and scores and
\* the junction whose lights it writes are the same object, also when
\* AlgoRunner.set_junction_info runs concurrently.
C34_OneSnapshotPerTick ==
    sim.pc = "server" =>
        /\ sim.lanes_of # -1 => sim.lanes_of = sim.roads_of
        /\ sim.lights_of # -1 => sim.lights_of = sim.roads_of

\* C35: the light states handed out by GET /traffic-light-state are always
\* one complete decision: never the lights a tick in progress has already
\* switched together with lights it has not switched yet.
C35_AnswerIsOneDecision ==
    sim.pc = "server" => ~sim.mixed

\* C36: a phase decision the controller wrote is not lost: a later GET
\* returns it unless a newer decision replaced it, and the Simulator's own
\* POST /junction-info never overwrites it before the Simulator has read it.
C36_DecisionNotLost ==
    sim.pc = "server" => ~sim.lost

\* ------------------------------------------------- POST /build-junction

\* The names RoadEnum.from_string knows.
RoadEnumNames == [NORTH |-> NORTH, EAST |-> EAST, SOUTH |-> SOUTH, WEST |-> WEST]

\* The bodies POSTed to /build-junction: roads 11 and 13 and one light. Road
\* 11 has its own lanes or a lane with the id of another road; its "from" is
\* a name of RoadEnum or is missing (the default 0); the light's origins are
\* the lanes of road 11, one of them, none, or lanes of two roads; its
\* destination is a lane of road 13 or a lane no road has.
BuildBodies ==
    {[roads |-> <<[road_index |-> 11, from |-> from_11, to |-> "NORTH", lanes |-> lanes_11],
                  [road_index |-> 13, from |-> "WEST", to |-> "EAST", lanes |-> <<136>>]>>,
      traffic_lights |-> <<[traffic_light_index |-> 1, input_index |-> input_index,
                            output_index |-> output_index]>>] :
        from_11 \in {"SOUTH", "0"},
        lanes_11 \in {<<110, 111>>, <<110, 125>>},
        input_index \in {<<110, 111>>, <<110>>, <<>>, <<110, 136>>},
        output_index \in {<<136>>, <<148>>}}

\* What build_junction answers when it returns, and Flask's answer to a
\* handler that raised.
BuiltSuccessfully == "Junction was built successfully."

InternalServerError == "500 Internal Server Error"

\* app.build_junction: RoadEnum.from_string raises ValueError for a name it
\* does not know and nothing catches it; otherwise the handler constructs the
\* Junction the body describes, every light RED (Junction.__init__ stores
\* what it is given), makes it the global junction and answers.
build_junction(data, previous) ==
    IF \E i \in DOMAIN data.roads :
           \/ data.roads[i].from \notin DOMAIN RoadEnumNames
           \/ data.roads[i].to \notin DOMAIN RoadEnumNames
    THEN [junction |-> previous, answer |-> InternalServerError]
    ELSE [junction |->
             [traffic_lights |->
                 [i \in DOMAIN data.traffic_lights |->
                     TrafficLight(data.traffic_lights[i].traffic_light_index,
                                  data.traffic_lights[i].input_index,
                                  data.traffic_lights[i].output_index, FALSE)],
              roads |->
                 [i \in DOMAIN data.roads |->
                     [id |-> data.roads[i].road_index,
                      from_side |-> RoadEnumNames[data.roads[i].from],
                      to_side |-> RoadEnumNames[data.roads[i].to],
                      lanes |-> data.roads[i].lanes]]],
          answer |-> BuiltSuccessfully]

\* The server process after its start: junction = None.
InitBuild ==
    /\ AlgoOff
    /\ twin = SimOff
    /\ sim = [pc |-> "build",
              app |-> [traffic_lights |-> <<>>, roads |-> <<>>],
              last |-> [data |-> [roads |-> <<>>, traffic_lights |-> <<>>], answer |-> ""]]

\* POST /build-junction with one of the bodies.
BuildJunction ==
    /\ sim.pc = "build"
    /\ \E data \in BuildBodies :
       \E built \in {build_junction(data, sim.app)} :
           sim' = [sim EXCEPT !.app = built.junction,
                              !.last = [data |-> data, answer |-> built.answer]]
    /\ UNCHANGED algo_vars
    /\ UNCHANGED twin

NextBuild == BuildJunction

SpecBuild == InitBuild /\ [][NextBuild]_vars

\* The construction constraints of a topology: every lane id is
\* road_id * 10 + k, the origins of every light are lanes of one road and not
\* empty, and every destination lane exists.
ValidTopology(data) ==
    /\ \A i \in DOMAIN data.roads : \A k \in DOMAIN data.roads[i].lanes :
           data.roads[i].lanes[k] \div 10 = data.roads[i].road_index
    /\ \A t \in DOMAIN data.traffic_lights :
           /\ data.traffic_lights[t].input_index # <<>>
           /\ \E i \in DOMAIN data.roads :
                  Range(data.traffic_lights[t].input_index) \subseteq Range(data.roads[i].lanes)
           /\ \A d \in Range(data.traffic_lights[t].output_index) :
                  \E i \in DOMAIN data.roads : d \in Range(data.roads[i].lanes)

\* C31: building a junction from a topology that violates a construction
\* constraint (a lane id that is not road_id * 10 + k, a light whose origins
\* are empty or not all lanes of one road, a destination lane that does not
\* exist) fails, and the junction built before is left unchanged.
C31_InvalidTopologyRejected ==
    [][(sim.pc = "build" /\ ~ValidTopology(sim'.last.data)) =>
          /\ sim'.last.answer # BuiltSuccessfully
          /\ sim'.app = sim.app]_vars

====
